---- MODULE Spec2Model ----
(***************************************************************************)
(* CloudForge diagram pipeline (src/src/infrastructure/langgraph_pipeline). *)
(*                                                                         *)
(* One DiagramPipeline object runs generate() a bounded number of times.   *)
(* Each run walks the compiled graph                                       *)
(*   blueprint -> enrich_mcp -> coder -> validator -> generator            *)
(* over one DiagramPipelineState.  A step of the model is one attempt of a *)
(* node (one pass through the body of its retry loop, with the loop test   *)
(* and the raise that follows it), so that attempts can be counted.        *)
(*                                                                         *)
(* Optional values follow Python's None/value: NoneVal is <<>>, Some(v) is *)
(* <<v>>.  An error string f"{text}: {cause}" is the pair <<text, cause>>. *)
(***************************************************************************)
EXTENDS Integers, Sequences, FiniteSets, TLC

VARIABLES
    pc,            \* position of the run: idle, a node name, or done
    runs,          \* number of generate() calls started on this object
    max_retries,   \* DiagramPipeline.max_retries (copied into every state)
    description,   \* state["description"]
    diagram_name,  \* state["diagram_name"]
    blueprint,     \* state["blueprint"]  (optional)
    code,          \* state["code"]       (optional)
    validation,    \* state["validation"] (optional)
    output_files,  \* state["output_files"] (optional set of formats)
    errors,        \* state["errors"], the list object shared with initial_state
    retry_count,   \* state["retry_count"]
    result,        \* value returned by generate() (optional)
    doc_connected, \* _aws_doc_client._connected (module-level singleton)
    trace          \* history of this run: one <<stage, outcome, cause, kind>>
                   \* per node attempt, kind being what the renderer did

vars == <<pc, runs, max_retries, description, diagram_name, blueprint, code,
          validation, output_files, errors, retry_count, result,
          doc_connected, trace>>

----------------------------------------------------------------------------
\* Bounds of the model

MaxRetriesBound == 2

MaxRuns == 2

----------------------------------------------------------------------------
\* Values

NoneVal == <<>>

Some(v) == <<v>>

IsNone(o) == o = <<>>

Truthy(o) == o # <<>>

Val(o) == o[1]

Descriptions == {"api gateway triggers a function", "static site"}

DiagramNames == {"arch"}

OutputFormats == {"png", "pdf", "svg"}

\* str(e) of what BlueprintArchitectChain() / .invoke raises
BlueprintCauses == {"Blueprint generation failed: llm"}

\* str(e) of what DiagramCoderChain() / .invoke raises
CoderCauses == {"Code generation failed: llm",
                "Code generation failed: Unterminated string"}

\* str(e) of the RuntimeError DiagramGenerator.generate raises on a timeout
TimeoutCause == "Generation timeout"

Err(text, cause) == <<text, cause>>


----------------------------------------------------------------------------
\* DiagramValidator (src/src/infrastructure/validator.py) on an abstract code:
\* what the generated text is like, as far as the validator can tell.

max_components == 100

max_relationships == 200

CodeSamples ==
    { [syntax_ok |-> TRUE,  unknown |-> 0, components |-> 3, relationships |-> 2, dangerous |-> 0],
      [syntax_ok |-> TRUE,  unknown |-> 0, components |-> 3, relationships |-> 2, dangerous |-> 1],
      [syntax_ok |-> FALSE, unknown |-> 0, components |-> 0, relationships |-> 1, dangerous |-> 0],
      [syntax_ok |-> TRUE,  unknown |-> 1, components |-> 2, relationships |-> 201, dangerous |-> 0] }

Finding(field, severity) == [field |-> field, severity |-> severity]

Repeat(x, n) == [i \in 1..n |-> x]

\* _validate_syntax: one error when ast.parse fails
SyntaxErrors(c) == IF c.syntax_ok THEN <<>> ELSE <<Finding("syntax", "error")>>

\* _validate_components: one finding per unknown imported name, put in errors
ComponentErrors(c) == Repeat(Finding("components", "warning"), c.unknown)

\* _validate_security: one warning per dangerous construct
SecurityWarnings(c) == Repeat(Finding("security", "warning"), c.dangerous)

SizeErrors(c) ==
    (IF c.components > max_components
        THEN <<Finding("components", "error")>> ELSE <<>>)
    \o (IF c.relationships > max_relationships
        THEN <<Finding("relationships", "error")>> ELSE <<>>)

Validate(c) ==
    LET errs == SyntaxErrors(c) \o ComponentErrors(c) \o SizeErrors(c)
    IN  [is_valid |-> Len(errs) = 0,
         errors |-> errs,
         warnings |-> SecurityWarnings(c),
         component_count |-> c.components,
         relationship_count |-> c.relationships]

----------------------------------------------------------------------------
\* Results of generate()

\* FailureResult, had the errors of the run not been carried into the result
FailureResultLosesHistory(errs, e) ==
    [success |-> FALSE, errors |-> <<e>>, message |-> e]

\* the except branch: errors of the shared list, then str(e)
FailureResult(errs, e) ==
    [success |-> FALSE, errors |-> Append(errs, e), message |-> e]

\* the success branch
SuccessResult(bp, cd, val, files, errs) ==
    [success |-> TRUE, blueprint |-> bp, code |-> cd, validation |-> val,
     output_files |-> files, errors |-> errs]

AttemptText(stage) ==
    CASE stage = "blueprint" -> "Blueprint generation failed"
      [] stage = "coder"     -> "Code generation failed"
      [] stage = "generator" -> "Diagram generation failed"

ExhaustedText(stage) ==
    CASE stage = "blueprint" -> "Blueprint generation failed after max_retries retries"
      [] stage = "coder"     -> "Code generation failed after max_retries retries"
      [] stage = "generator" -> "Diagram generation failed after max_retries retries"

\* OnException, had generate() let the exception through
OnExceptionReraises(errs, e) == Some([raised |-> TRUE, exception |-> e])

\* generate()'s except Exception branch: the exception e that came out of
\* graph.invoke becomes the failure shape
OnException(errs, e) == Some(FailureResult(errs, e))

\* LoopContinues, had the test been retry_count < max_retries
LoopContinuesStrict(rc, mx) == rc < mx

\* while state["retry_count"] <= state["max_retries"]
LoopContinues(rc, mx) == rc <= mx

\* AttemptFails, had the error list been overwritten with the new message
AttemptFailsOverwrites(stage, cause, kind) ==
    LET errs == <<Err(AttemptText(stage), cause)>>
        rc   == retry_count + 1
    IN  /\ errors' = errs
        /\ retry_count' = rc
        /\ trace' = Append(trace, <<stage, "fail", cause, kind>>)
        /\ IF LoopContinues(rc, max_retries)
              THEN /\ pc' = pc
                   /\ result' = result
              ELSE /\ pc' = "done"
                   /\ result' = OnException(errs, Err(ExhaustedText(stage), cause))

\* AttemptFails, had a failed attempt sent the run back to the first stage
AttemptFailsRestarts(stage, cause, kind) ==
    LET errs == Append(errors, Err(AttemptText(stage), cause))
        rc   == retry_count + 1
    IN  /\ errors' = errs
        /\ retry_count' = rc
        /\ trace' = Append(trace, <<stage, "fail", cause, kind>>)
        /\ IF LoopContinues(rc, max_retries)
              THEN /\ pc' = "blueprint"
                   /\ result' = result
              ELSE /\ pc' = "done"
                   /\ result' = OnException(errs, Err(ExhaustedText(stage), cause))

\* AttemptFails, had the increment of retry_count been left out
AttemptFailsForgetsCount(stage, cause, kind) ==
    LET errs == Append(errors, Err(AttemptText(stage), cause))
        rc   == retry_count
    IN  /\ errors' = errs
        /\ retry_count' = rc
        /\ trace' = Append(trace, <<stage, "fail", cause, kind>>)
        /\ IF LoopContinues(rc, max_retries)
              THEN /\ pc' = pc
                   /\ result' = result
              ELSE /\ pc' = "done"
                   /\ result' = OnException(errs, Err(ExhaustedText(stage), cause))

\* the except branch of a node's retry loop, then the loop test; when the
\* test fails the node raises and generate() returns the failure shape
AttemptFails(stage, cause, kind) ==
    LET errs == Append(errors, Err(AttemptText(stage), cause))
        rc   == retry_count + 1
    IN  /\ errors' = errs
        /\ retry_count' = rc
        /\ trace' = Append(trace, <<stage, "fail", cause, kind>>)
        /\ IF LoopContinues(rc, max_retries)
              THEN /\ pc' = pc
                   /\ result' = result
              ELSE /\ pc' = "done"
                   /\ result' = OnException(errs, Err(ExhaustedText(stage), cause))

\* a node's guard failed: the message is appended and raised as it is
GuardFails(stage, msg) ==
    LET errs == Append(errors, msg)
    IN  /\ errors' = errs
        /\ trace' = Append(trace, <<stage, "guard", msg[1], "">>)
        /\ pc' = "done"
        /\ result' = OnException(errs, msg)
        /\ UNCHANGED retry_count

----------------------------------------------------------------------------
\* Blueprints: what BlueprintArchitectChain.invoke returns, reduced to the
\* service types of its nodes, and the best_practices key enrichment may add

NodeLists == {<<>>, <<"Lambda">>, <<"Lambda", "S3", "Lambda">>}

NewBlueprint(d, nodes) ==
    [description |-> d, nodes |-> nodes, best_practices |-> NoneVal]

Range(f) == {f[i] : i \in DOMAIN f}

\* the orders in which list(set(services)) may enumerate a set
Orders(S) ==
    {o \in [1..Cardinality(S) -> S] : \A i, j \in DOMAIN o : o[i] = o[j] => i = j}

Min(a, b) == IF a <= b THEN a ELSE b

SearchOutcomes == {"ok", "unsuccessful", "raise"}

\* for service in list(unique_services)[:3]: one entry per successful search;
\* an exception inside the loop body is caught there and the loop continues
BestPracticesList(order, search) ==
    LET firstThree == SubSeq(order, 1, Min(3, Len(order)))
    IN  SelectSeq(firstThree, LAMBDA s : search[s] = "ok")

\* an enrichment that keeps only the services it consulted as the nodes of
\* the blueprint
EnrichBodyKeepsConsulted(bp, connected, disabled, alive, connectOk, order, search, closeRaises) ==
    LET services == bp.nodes
        skip     == [blueprint |-> bp, connected |-> connected, raised |-> FALSE]
        old      == IF IsNone(bp.best_practices) THEN <<>> ELSE Val(bp.best_practices)
        enriched == [bp EXCEPT !.best_practices =
                        Some(old \o BestPracticesList(order, search)),
                               !.nodes = order]
    IN  IF disabled THEN skip
        ELSE IF Len(services) = 0 THEN skip
        ELSE IF ~(connected /\ alive) /\ ~connectOk
             THEN [skip EXCEPT !.connected = FALSE]
        ELSE IF closeRaises
             THEN [blueprint |-> enriched, connected |-> TRUE, raised |-> TRUE]
        ELSE [blueprint |-> enriched, connected |-> FALSE, raised |-> FALSE]

\* the body of enrich_mcp_node's try block.  Gives the blueprint left in the
\* state, whether the singleton client is left connected, and whether the
\* body ended by an exception
EnrichBody(bp, connected, disabled, alive, connectOk, order, search, closeRaises) ==
    LET services == bp.nodes
        skip     == [blueprint |-> bp, connected |-> connected, raised |-> FALSE]
        old      == IF IsNone(bp.best_practices) THEN <<>> ELSE Val(bp.best_practices)
        enriched == [bp EXCEPT !.best_practices =
                        Some(old \o BestPracticesList(order, search))]
    IN  IF disabled THEN skip
        ELSE IF Len(services) = 0 THEN skip
        ELSE IF ~(connected /\ alive) /\ ~connectOk
             THEN [skip EXCEPT !.connected = FALSE]
        ELSE IF closeRaises
             THEN [blueprint |-> enriched, connected |-> TRUE, raised |-> TRUE]
        ELSE [blueprint |-> enriched, connected |-> FALSE, raised |-> FALSE]

\* EnrichNext, had an exception of the body ended the run
EnrichNextPropagates(raised) == IF raised THEN "done" ELSE "coder"

\* except Exception: pass, then return state and the edge enrich_mcp -> coder:
\* the node returns whether or not the body raised
EnrichNext(raised) == "coder"

----------------------------------------------------------------------------
\* The run

Stages == <<"blueprint", "enrich_mcp", "coder", "validator", "generator">>

Init ==
    /\ pc = "idle"
    /\ runs = 0
    /\ max_retries \in 0..MaxRetriesBound
    /\ description = ""
    /\ diagram_name = ""
    /\ blueprint = NoneVal
    /\ code = NoneVal
    /\ validation = NoneVal
    /\ output_files = NoneVal
    /\ errors = <<>>
    /\ retry_count = 0
    /\ result = NoneVal
    /\ doc_connected = FALSE
    /\ trace = <<>>

\* Generate, had the state of the previous call been kept (errors and
\* retry_count held on the object instead of in a fresh initial_state)
GenerateKeepsState ==
    /\ pc \in {"idle", "done"}
    /\ runs < MaxRuns
    /\ runs' = runs + 1
    /\ \E d \in Descriptions, n \in DiagramNames :
          /\ description' = d
          /\ diagram_name' = n
    /\ blueprint' = NoneVal
    /\ code' = NoneVal
    /\ validation' = NoneVal
    /\ output_files' = NoneVal
    /\ result' = NoneVal
    /\ trace' = <<>>
    /\ pc' = "blueprint"
    /\ UNCHANGED <<max_retries, doc_connected, errors, retry_count>>

\* DiagramPipeline.generate up to graph.invoke: a fresh initial_state
Generate ==
    /\ pc \in {"idle", "done"}
    /\ runs < MaxRuns
    /\ runs' = runs + 1
    /\ \E d \in Descriptions, n \in DiagramNames :
          /\ description' = d
          /\ diagram_name' = n
    /\ blueprint' = NoneVal
    /\ code' = NoneVal
    /\ validation' = NoneVal
    /\ output_files' = NoneVal
    /\ errors' = <<>>
    /\ retry_count' = 0
    /\ result' = NoneVal
    /\ trace' = <<>>
    /\ pc' = "blueprint"
    /\ UNCHANGED <<max_retries, doc_connected>>

\* one pass of blueprint_node's loop
BlueprintNode ==
    /\ pc = "blueprint"
    /\ LoopContinues(retry_count, max_retries)
    /\ \/ \E nodes \in NodeLists :
             /\ blueprint' = Some(NewBlueprint(description, nodes))
             /\ trace' = Append(trace, <<"blueprint", "ok", "", "">>)
             /\ pc' = "enrich_mcp"
             /\ UNCHANGED <<errors, retry_count, result>>
       \/ \E cause \in BlueprintCauses :
             /\ AttemptFails("blueprint", cause, "")
             /\ UNCHANGED blueprint
    /\ UNCHANGED <<runs, max_retries, description, diagram_name, code,
                   validation, output_files, doc_connected>>

\* enrich_mcp_node
EnrichMcpNode ==
    /\ pc = "enrich_mcp"
    /\ IF ~Truthy(blueprint)
          THEN /\ UNCHANGED <<blueprint, doc_connected>>
               /\ trace' = Append(trace, <<"enrich_mcp", "ok", "", "">>)
               /\ pc' = "coder"
          ELSE \E disabled, alive, connectOk, closeRaises \in BOOLEAN :
               \E order \in Orders(Range(Val(blueprint).nodes)) :
               \E search \in [Range(Val(blueprint).nodes) -> SearchOutcomes] :
                  LET r == EnrichBody(Val(blueprint), doc_connected, disabled, alive,
                                      connectOk, order, search, closeRaises)
                  IN  /\ blueprint' = Some(r.blueprint)
                      /\ doc_connected' = r.connected
                      /\ trace' = Append(trace,
                             <<"enrich_mcp", IF r.raised THEN "swallowed" ELSE "ok", "", "">>)
                      /\ pc' = EnrichNext(r.raised)
    /\ UNCHANGED <<runs, max_retries, description, diagram_name, code,
                   validation, output_files, errors, retry_count, result>>

\* one pass of coder_node's loop (after its guard)
CoderNode ==
    /\ pc = "coder"
    /\ IF ~Truthy(blueprint)
          THEN /\ GuardFails("coder", Err("No blueprint available for code generation", ""))
               /\ UNCHANGED code
          ELSE /\ LoopContinues(retry_count, max_retries)
               /\ \/ \E c \in CodeSamples :
                        /\ code' = Some(c)
                        /\ trace' = Append(trace, <<"coder", "ok", "", "">>)
                        /\ pc' = "validator"
                        /\ UNCHANGED <<errors, retry_count, result>>
                  \/ \E cause \in CoderCauses :
                        /\ AttemptFails("coder", cause, "")
                        /\ UNCHANGED code
    /\ UNCHANGED <<runs, max_retries, description, diagram_name, blueprint,
                   validation, output_files, doc_connected>>

NErrorsText(n) ==
    CASE n = 1 -> "1 errors" [] n = 2 -> "2 errors" [] OTHER -> "3 or more errors"

\* state["validation"] = {...}
ValidationDict(v) ==
    [is_valid |-> v.is_valid,
     errors |-> [i \in 1..Len(v.errors) |-> v.errors[i].field],
     warnings |-> [i \in 1..Len(v.warnings) |-> v.warnings[i].field],
     component_count |-> v.component_count,
     relationship_count |-> v.relationship_count]

\* AfterValidator, had an invalid report ended the run
AfterValidatorBlocks(is_valid) == IF is_valid THEN "generator" ELSE "done"

\* where the graph goes after validator_node returned: the edge
\* validator -> generator, whatever the report says
AfterValidator(is_valid) == "generator"

\* validator_node
ValidatorNode ==
    /\ pc = "validator"
    /\ IF ~Truthy(code)
          THEN /\ GuardFails("validator", Err("No code available for validation", ""))
               /\ UNCHANGED validation
          ELSE LET v == Validate(Val(code))
               IN  /\ validation' = Some(ValidationDict(v))
                   /\ errors' = IF v.is_valid THEN errors
                                ELSE Append(errors, Err("Validation failed",
                                                        NErrorsText(Len(v.errors))))
                   /\ trace' = Append(trace,
                          <<"validator", IF v.is_valid THEN "ok" ELSE "invalid",
                            IF v.is_valid THEN "" ELSE NErrorsText(Len(v.errors)), "">>)
                   /\ pc' = AfterValidator(v.is_valid)
                   /\ UNCHANGED <<retry_count, result>>
    /\ UNCHANGED <<runs, max_retries, description, diagram_name, blueprint,
                   code, output_files, doc_connected>>

\* HasOutput, had the test been "is not None"
HasOutputIsNotNone(files) == TRUE

\* if final_state.get("output_files"): a dict is true when it is not empty
HasOutput(files) == files # {}

\* generate() after graph.invoke returned
Finish(bp, cd, val, files, errs) ==
    IF HasOutput(files)
       THEN Some(SuccessResult(bp, cd, val, Some(files), errs))
       ELSE OnException(errs, Err("Pipeline completed but no output files generated", ""))

\* DiagramGenerator.generate: what the script run did -> what generate does.
\* found is the set of formats whose file exists afterwards
RenderKinds == {"exit0", "nonzero", "timeout"}

\* RenderOutcome, had a timeout been swallowed and no file reported
RenderOutcomeSwallowsTimeout(kind, found) ==
    CASE kind = "exit0"   -> [raises |-> FALSE, files |-> found, cause |-> ""]
      [] kind = "nonzero" -> [raises |-> TRUE, files |-> {}, cause |-> "Generation error: stderr"]
      [] kind = "timeout" -> [raises |-> FALSE, files |-> {}, cause |-> ""]

RenderOutcome(kind, found) ==
    CASE kind = "exit0"   -> [raises |-> FALSE, files |-> found, cause |-> ""]
      [] kind = "nonzero" -> [raises |-> TRUE, files |-> {}, cause |-> "Generation error: stderr"]
      [] kind = "timeout" -> [raises |-> TRUE, files |-> {}, cause |-> TimeoutCause]

\* one pass of generator_node's loop (after its guard); when it succeeds the
\* graph ends and generate() builds its result
GeneratorNode ==
    /\ pc = "generator"
    /\ IF ~Truthy(code)
          THEN /\ GuardFails("generator", Err("No code available for diagram generation", ""))
               /\ UNCHANGED output_files
          ELSE /\ LoopContinues(retry_count, max_retries)
               /\ \E kind \in RenderKinds :
                  \E found \in (IF kind = "exit0" THEN SUBSET OutputFormats ELSE {{}}) :
                     LET r == RenderOutcome(kind, found)
                     IN  IF r.raises
                            THEN /\ AttemptFails("generator", r.cause, kind)
                                 /\ UNCHANGED output_files
                            ELSE /\ output_files' = Some(r.files)
                                 /\ trace' = Append(trace, <<"generator", "ok", "", kind>>)
                                 /\ pc' = "done"
                                 /\ result' = Finish(blueprint, code, validation,
                                                      r.files, errors)
                                 /\ UNCHANGED <<errors, retry_count>>
    /\ UNCHANGED <<runs, max_retries, description, diagram_name, blueprint,
                   code, validation, doc_connected>>

----------------------------------------------------------------------------
\* What lies outside one run of the pipeline

VARIABLES
    prev_run       \* history: how the previous generate() call on this object
                   \* ended (none, succeeded, failed)

\* the caller has the previous result when it calls generate() again
PrevRunInit == prev_run = "none"

RecordPrevRun ==
    prev_run' = IF runs' = runs THEN prev_run
                ELSE IF pc # "done" THEN "none"
                ELSE IF Val(result).success THEN "succeeded" ELSE "failed"

\* AwsMultiAgentSkillPipeline.invoke (src/src/infrastructure/nlp/skill.py):
\* the calling thread and the two worker tasks of its ThreadPoolExecutor
VARIABLES
    sk_pc,         \* the calling thread: idle, join_arch, join_crit, shutdown,
                   \* review, returned
    sk_exc,        \* the exception the calling thread carries out of the
                   \* with block ("" when none)
    arch_st,       \* Architect task: idle, running, hung (never completes), done
    crit_st,       \* Critic task, likewise
    arch_kind,     \* what the Architect's model call did ("" until done)
    crit_kind,     \* what the Critic's model call did
    arch_out,      \* dict returned by ArchitectAgent.invoke (optional)
    crit_out,      \* dict returned by CriticAgent.invoke (optional)
    rev_kind,      \* what the Reviewer's model call did ("" when not called)
    rev_args,      \* the <<architect, critic>> dicts synthesize was called with
    sk_result      \* value returned by invoke (optional)

skvars == <<sk_pc, sk_exc, arch_st, crit_st, arch_kind, crit_kind, arch_out,
            crit_out, rev_kind, rev_args, sk_result>>

\* an AwsMultiAgentSkillPipeline object on which invoke was not yet called
SkillInit ==
    /\ sk_pc = "idle"
    /\ sk_exc = ""
    /\ arch_st = "idle"
    /\ crit_st = "idle"
    /\ arch_kind = ""
    /\ crit_kind = ""
    /\ arch_out = NoneVal
    /\ crit_out = NoneVal
    /\ rev_kind = ""
    /\ rev_args = NoneVal
    /\ sk_result = NoneVal

\* ArchitectureBlueprint.__str__ (nlp/models.py) and
\* BlueprintArchitect._parse_blueprint_text (nlp/architect.py)
VARIABLES
    bp_pc,         \* idle, built (a blueprint object exists), text, parsed,
                   \* returned (analyze is over)
    bp_in,         \* the ArchitectureBlueprint that was formatted (optional)
    bp_text,       \* the text handed to _parse_blueprint_text (optional)
    bp_parsed,     \* what _parse_blueprint_text returned or raised (optional)
    bp_answer,     \* what the model call answered, before it is text (optional)
    bp_log,        \* the warnings and errors logged so far
    bp_result      \* what analyze returned or raised (optional)

bpvars == <<bp_pc, bp_in, bp_text, bp_parsed, bp_answer, bp_log, bp_result>>

\* no blueprint was built and no text was parsed yet
BlueprintInit ==
    /\ bp_pc = "idle"
    /\ bp_in = NoneVal
    /\ bp_text = NoneVal
    /\ bp_parsed = NoneVal
    /\ bp_answer = NoneVal
    /\ bp_log = <<>>
    /\ bp_result = NoneVal

\* DiagramCoderChain.invoke (langchain_chains.py and nlp/chains.py) and the
\* way of its code through coder_node, validator_node and generator_node
VARIABLES
    cd_pc,         \* idle, responded (the model call answered), returned
                   \* (invoke is over), validator, generator, rendered
    cd_class,      \* the module of the DiagramCoderChain class in use
    cd_response,   \* response.content of the model call (optional)
    cd_result,     \* what invoke returned or raised (optional)
    cd_log,        \* the warnings _validate_generated_code logged
    cd_code,       \* state["code"] of the pipeline run (optional)
    cd_rendered    \* the code DiagramGenerator.generate was called with
                   \* (optional)

cdvars ==
    <<cd_pc, cd_class, cd_response, cd_result, cd_log, cd_code, cd_rendered>>

\* no coder chain was invoked yet
CoderInit ==
    /\ cd_pc = "idle"
    /\ cd_class = ""
    /\ cd_response = NoneVal
    /\ cd_result = NoneVal
    /\ cd_log = <<>>
    /\ cd_code = NoneVal
    /\ cd_rendered = NoneVal

\* DiagramValidator.validate (validator.py) on the text of a code
VARIABLES
    vd_pc,         \* idle, called (validate has its argument), returned
    vd_code,       \* the code validate was called with (optional)
    vd_report      \* the DiagramValidation it returned (optional)

vdvars == <<vd_pc, vd_code, vd_report>>

\* validate was not called yet
ValidatorInit ==
    /\ vd_pc = "idle"
    /\ vd_code = NoneVal
    /\ vd_report = NoneVal

\* DiagramStorage (storage.py): the files under one storage path and the
\* DiagramStorage objects opened on it
VARIABLES
    st_disk,       \* code: id -> text of diagrams/<id>.py, metadata: id ->
                   \* content of metadata/<id>.json, outputs: the <<id, format>>
                   \* of the output files, index: content of index.json (optional)
    st_index,      \* object -> its _index, the entries in insertion order
    st_saved,      \* id -> the StoredDiagram save_diagram returned
    st_deleted,    \* the ids for which delete_diagram returned True
    st_scope,      \* id -> the objects that saved it or were opened after
    st_last        \* the last call and what it returned

stvars == <<st_disk, st_index, st_saved, st_deleted, st_scope, st_last>>

\* the DiagramStorage objects on the path
StorageObjects == {"first", "second"}

\* an empty storage path with the objects just constructed on it
StorageInit ==
    /\ st_disk = [code |-> <<>>, metadata |-> <<>>, outputs |-> {},
                  index |-> NoneVal]
    /\ st_index = [o \in StorageObjects |-> <<>>]
    /\ st_saved = <<>>
    /\ st_deleted = {}
    /\ st_scope = <<>>
    /\ st_last = [op |-> "none"]

\* the variables of the models next to the pipeline
OtherVars == <<skvars, bpvars, cdvars, vdvars, stvars>>

\* the variables no step of the pipeline touches
PipelineFrame == RecordPrevRun /\ UNCHANGED OtherVars

allvars == <<vars, prev_run, OtherVars>>

Next ==
    \/ Generate /\ PipelineFrame
    \/ BlueprintNode /\ PipelineFrame
    \/ EnrichMcpNode /\ PipelineFrame
    \/ CoderNode /\ PipelineFrame
    \/ ValidatorNode /\ PipelineFrame
    \/ GeneratorNode /\ PipelineFrame

\* a DiagramPipeline object before its first generate() call
PipelineInit ==
    /\ Init /\ PrevRunInit /\ SkillInit /\ BlueprintInit /\ CoderInit
    /\ ValidatorInit /\ StorageInit

Spec == PipelineInit /\ [][Next]_allvars

----------------------------------------------------------------------------
\* Reading the history of a run

Mandatory == {"blueprint", "coder", "generator"}

Succeeded(e) == e[2] \in {"ok", "invalid", "swallowed"}

Failed(e) == e[2] \in {"fail", "guard"}

LastEntry == trace[Len(trace)]

\* number of times the stage's external call was attempted in this run
AttemptsOf(stage) ==
    Cardinality({i \in DOMAIN trace : trace[i][1] = stage /\ trace[i][2] # "guard"})

StageIndex(stage) == CHOOSE i \in DOMAIN Stages : Stages[i] = stage

IsPrefix(a, b) == Len(a) <= Len(b) /\ SubSeq(b, 1, Len(a)) = a

\* the error string an entry of the history stands for
ErrOf(e) ==
    CASE e[2] = "fail"    -> Err(AttemptText(e[1]), e[3])
      [] e[2] = "invalid" -> Err("Validation failed", e[3])
      [] e[2] = "guard"   -> Err(e[3], "")

\* every error string recorded during the run, in order
RecordedErrors ==
    LET rec == SelectSeq(trace, LAMBDA e : e[2] \in {"fail", "invalid", "guard"})
    IN  [i \in 1..Len(rec) |-> ErrOf(rec[i])]

SummaryTexts ==
    {ExhaustedText(s) : s \in Mandatory}
        \cup {"Pipeline completed but no output files generated"}

\* the render stage left at least one artifact in the state
OutputProduced == Truthy(output_files) /\ Val(output_files) # {}

\* graph.invoke ended by an exception
GraphRaised == Len(trace) > 0 /\ Failed(LastEntry)

RunFailed == pc = "done" /\ ~Val(result).success

----------------------------------------------------------------------------
\* C1: for every maxRetries = N and every mandatory stage, a stage that fails
\* on every attempt is attempted exactly N+1 times before the run is marked
\* failed, whatever happened in the stages before it.
C1_ExhaustedStageTriedNPlus1 ==
    (pc = "done" /\ Len(trace) > 0 /\ LastEntry[2] = "fail")
        => AttemptsOf(LastEntry[1]) = max_retries + 1

\* C2: retry is bounded independently per stage: when a later stage (code,
\* render) starts, the attempts available to it are the full N+1, whatever
\* the earlier stages consumed.
C2_LaterStageHasFullBudget ==
    \A s \in {"coder", "generator"} :
        (pc = s /\ AttemptsOf(s) = 0)
            => (max_retries + 1) - retry_count = max_retries + 1

C4_SuccessIffArtifact ==
    pc = "done" => (Val(result).success <=> OutputProduced)

C4_Witness ==
    /\ pc = "done"
    /\ LastEntry = <<"generator", "ok", "", "exit0">>
    /\ output_files = Some({})
    /\ Val(result).success = FALSE

C6_FailureCarriesHistory ==
    RunFailed =>
        /\ Val(result).errors = Append(RecordedErrors, Val(result).message)
        /\ Val(result).message[1] \in SummaryTexts

C6_Witness ==
    /\ RunFailed
    /\ Len(RecordedErrors) >= 2
    /\ \E i, j \in DOMAIN trace :
          /\ trace[i][1] = "blueprint" /\ trace[i][2] = "fail"
          /\ trace[j][1] = "generator" /\ trace[j][2] = "fail"

\* C7: within a run the error list only grows at its end: every step leaves
\* the old list as a prefix of the new one, and an attempt of the blueprint,
\* code or render stage adds exactly one entry when it fails and none when it
\* succeeds.
C7_ErrorsAppendOnly ==
    [][(runs' = runs) =>
          /\ IsPrefix(errors, errors')
          /\ (pc \in Mandatory) =>
                Len(errors') = Len(errors)
                    + (IF Failed(trace'[Len(trace')]) THEN 1 ELSE 0)]_vars

C7_Witness ==
    /\ Len(errors) >= 3
    /\ errors[1][1] = "Blueprint generation failed"
    /\ errors[2][1] = "Code generation failed"
    /\ errors[3][1] = "Diagram generation failed"

\* C8: the enrich stage never ends the run: whatever the documentation
\* client does, the stage returns, the code stage is next, and neither
\* retryCount nor the error list nor the result changes.
C8_EnrichNeverFails ==
    [][(pc = "enrich_mcp") =>
          /\ pc' = "coder"
          /\ retry_count' = retry_count
          /\ errors' = errors
          /\ result' = NoneVal]_vars

C8_Witness ==
    /\ pc = "coder"
    /\ LastEntry = <<"enrich_mcp", "swallowed", "", "">>
    /\ doc_connected

\* C9: stages run in the order blueprint, enrich, code, validate, render; a
\* stage starts only when the one before it has succeeded, a failed attempt
\* is followed by the same stage, and nothing follows a stage that succeeded
\* but its successor.
C9_StagesInOrder ==
    /\ Len(trace) > 0 => trace[1][1] = "blueprint"
    /\ \A i \in 1..(Len(trace) - 1) :
          IF Succeeded(trace[i])
             THEN StageIndex(trace[i + 1][1]) = StageIndex(trace[i][1]) + 1
             ELSE trace[i][2] = "fail" /\ trace[i + 1][1] = trace[i][1]
    /\ (pc \notin {"idle", "done"}) =>
          IF trace = <<>> THEN pc = "blueprint"
          ELSE IF Succeeded(LastEntry)
                  THEN StageIndex(pc) = StageIndex(LastEntry[1]) + 1
                  ELSE pc = LastEntry[1]

C9_Witness ==
    /\ pc = "generator"
    /\ Len(trace) >= 2
    /\ LastEntry[1] = "generator" /\ LastEntry[2] = "fail"
    /\ \E i \in DOMAIN trace : trace[i][1] = "coder" /\ trace[i][2] = "fail"

\* C10: a render attempt that times out is one failed attempt of the render
\* stage: it records one error and increments retryCount, and while
\* retryCount does not exceed maxRetries the render stage is attempted again
\* and the run has not ended.
C10_TimeoutIsRetryable ==
    [][(/\ pc = "generator"
        /\ Len(trace') = Len(trace) + 1
        /\ trace'[Len(trace')][4] = "timeout") =>
          /\ errors' = Append(errors, Err("Diagram generation failed", TimeoutCause))
          /\ retry_count' = retry_count + 1
          /\ trace'[Len(trace')][2] = "fail"
          /\ IF retry_count' <= max_retries
                THEN pc' = "generator" /\ result' = NoneVal
                ELSE pc' = "done" /\ Val(result').success = FALSE]_vars

C10_Witness ==
    /\ Len(trace) >= 2
    /\ trace[Len(trace) - 1] = <<"generator", "fail", TimeoutCause, "timeout">>
    /\ LastEntry = <<"generator", "ok", "", "exit0">>
    /\ pc = "done"
    /\ Val(result).success

\* C11: with maxRetries = 2, blueprint, code and validate succeeding at once
\* and the renderer failing on every call, the run returns success = false
\* and its errors are exactly 3 render-stage attempt entries, followed by the
\* summary message.
CountText(errs, text) == Cardinality({i \in DOMAIN errs : errs[i][1] = text})

C11_Scenario ==
    /\ max_retries = 2
    /\ pc = "done"
    /\ Len(trace) >= 5
    /\ trace[1] = <<"blueprint", "ok", "", "">>
    /\ trace[3] = <<"coder", "ok", "", "">>
    /\ trace[4] = <<"validator", "ok", "", "">>
    /\ \A i \in 5..Len(trace) : trace[i][1] = "generator" /\ trace[i][2] = "fail"

C11_ThreeRenderErrors ==
    C11_Scenario =>
        /\ Val(result).success = FALSE
        /\ CountText(errors, "Diagram generation failed") = 3
        /\ Len(Val(result).errors) = 4
        /\ \A i \in 1..3 : Val(result).errors[i][1] = "Diagram generation failed"
        /\ Val(result).errors[4] = Val(result).message
        /\ Val(result).message[1] = ExhaustedText("generator")

C11_Witness ==
    /\ C11_Scenario
    /\ Len(trace) = 7
    /\ trace[6][4] = "timeout"

\* C12: every run ends, after finitely many stage attempts, in exactly one
\* terminal state: each step of a run lowers a non-negative measure, a run
\* that has not ended can always take a step, the attempts of a run are at
\* most maxRetries + 5, and a run that has ended has one result, which only a
\* new call replaces.
StageRank ==
    CASE pc = "blueprint"  -> 5
      [] pc = "enrich_mcp" -> 4
      [] pc = "coder"      -> 3
      [] pc = "validator"  -> 2
      [] pc = "generator"  -> 1
      [] OTHER             -> 0

Measure ==
    IF StageRank = 0 THEN 0
    ELSE StageRank * (max_retries + 2) + (max_retries + 1 - retry_count)

InRun == pc \notin {"idle", "done"}

NodeStep ==
    BlueprintNode \/ EnrichMcpNode \/ CoderNode \/ ValidatorNode \/ GeneratorNode

C12_RunTerminates ==
    /\ [][(runs' = runs) => (Measure' < Measure /\ Measure' >= 0)]_vars
    /\ [][(pc = "done") => (runs' = runs + 1 /\ pc' = "blueprint")]_vars
    /\ [](InRun => ENABLED NodeStep)
    /\ [](Len(trace) <= max_retries + 5)
    /\ []((pc = "done") => (Truthy(result) /\ Val(result).success \in BOOLEAN))

C12_Witness ==
    /\ pc = "done"
    /\ max_retries = 2
    /\ Len(trace) = max_retries + 5
    /\ Val(result).success

\* C13: state is not shared between runs: a second run on the same object
\* starts with retryCount = 0, no errors, no blueprint, code, report or
\* artifact, and its result holds only what that run recorded, whatever the
\* first run's outcome.
C13_SecondRunIsFresh ==
    (runs >= 2) =>
        /\ (pc = "blueprint" /\ trace = <<>>) =>
              /\ retry_count = 0
              /\ errors = <<>>
              /\ blueprint = NoneVal /\ code = NoneVal
              /\ validation = NoneVal /\ output_files = NoneVal
              /\ result = NoneVal
        /\ Len(errors) = Len(RecordedErrors)
        /\ (pc = "done") =>
              IF Val(result).success
                 THEN /\ Val(result).errors = RecordedErrors
                      /\ Val(result).blueprint = blueprint
                      /\ Val(result).code = code
                      /\ Val(result).output_files = output_files
                 ELSE Val(result).errors = Append(RecordedErrors, Val(result).message)

C13_Witness ==
    /\ runs = 2
    /\ prev_run = "failed"
    /\ pc = "done"
    /\ Val(result).success
    /\ Val(result).errors = <<>>

\* C14: every result, on success and on failure alike, carries success,
\* blueprint, code, validation, output_files and errors, and on a failure
\* the blueprint and code produced so far are in the result.
ResultFields == {"success", "blueprint", "code", "validation", "output_files", "errors"}

C14_ResultHasAllFields ==
    (pc = "done") =>
        /\ ResultFields \subseteq DOMAIN Val(result)
        /\ Val(result).blueprint = blueprint
        /\ Val(result).code = code

-----------------------------------------------------------------------------
\* PatternAnalyzer: AwsMultiAgentSkillPipeline (src/src/infrastructure/nlp/skill.py)

\* A text is a sequence of pieces, so that += and join are computed.
\* A dict is a record of optional entries: NoneVal is a missing key.
EmptyDict ==
    [pattern_labels |-> NoneVal, recommended_services |-> NoneVal,
     skill_notes |-> NoneVal, gaps |-> NoneVal]

\* dict.get(key, default)
Get(d, key, default) == IF IsNone(d[key]) THEN default ELSE Val(d[key])

\* JSON maps the Architect's model call may answer with; one recommended
\* service lacks its role
ArchitectReplies ==
    { [EmptyDict EXCEPT
          !.pattern_labels = Some(<<"RAG", "Serverless">>),
          !.recommended_services =
              Some(<< [service |-> Some("Bedrock"), role |-> Some("LLM")],
                      [service |-> Some("S3"), role |-> NoneVal] >>),
          !.skill_notes = Some(<<"Use a vector store">>)],
      [EmptyDict EXCEPT !.pattern_labels = Some(<<"Batch">>)] }

\* JSON maps the Critic's model call may answer with
CriticReplies ==
    { [EmptyDict EXCEPT !.gaps = Some(<<"No auth", "No DLQ", "No cache">>)],
      [EmptyDict EXCEPT !.gaps = Some(<<"No auth">>)],
      [EmptyDict EXCEPT !.gaps = Some(<<>>)] }

\* what a model call of the Architect or the Critic may do
ReplyKinds == {"ok", "exception", "malformed", "nonmap"}

\* ArchitectAgent.invoke, CriticAgent.invoke: the parsed map, or {} when the
\* call raised, the answer is not JSON, or the JSON is not a map
AgentInvoke(kind, reply) == IF kind = "ok" THEN reply ELSE EmptyDict

\* what the Reviewer's model call may do, and the texts it may answer with
ReviewerKinds == {"ok", "exception"}

ReviewerTexts == {<<"Add a cache in front of the model">>, <<>>}

\* seq[:n]
Take(seq, n) == SubSeq(seq, 1, Min(n, Len(seq)))

\* sep.join(seq)
RECURSIVE Join(_, _)
Join(seq, sep) ==
    IF Len(seq) = 0 THEN <<>>
    ELSE IF Len(seq) = 1 THEN <<seq[1]>>
    ELSE <<seq[1], sep>> \o Join(Tail(seq), sep)

\* a fallback that forgets the Architect's note
FallbackNotesGapsOnly(architect, critic) ==
    Join(Take(Get(critic, "gaps", <<>>), 2), "; ")

\* the except branch of ReviewerAgent.synthesize
FallbackNotes(architect, critic) ==
    LET notes == Get(architect, "skill_notes", <<>>)
        gaps == Get(critic, "gaps", <<>>)
    IN  IF Len(gaps) > 0
           THEN notes \o <<" Missing: ">> \o Join(Take(gaps, 2), "; ") \o <<".">>
           ELSE notes

\* ReviewerAgent.synthesize
synthesize(kind, text, architect, critic) ==
    IF kind = "ok" THEN text ELSE FallbackNotes(architect, critic)

AwsPatternSkillOutput(labels, services, notes) ==
    [pattern_labels |-> labels, recommended_services |-> services,
     skill_notes |-> notes]

EmptyOutput == AwsPatternSkillOutput(<<>>, <<>>, <<>>)

\* the entries of recommended_services that carry both keys
RecommendedServices(arch) ==
    LET kept == SelectSeq(Get(arch, "recommended_services", <<>>),
                          LAMBDA s : ~IsNone(s.service) /\ ~IsNone(s.role))
    IN  [i \in 1..Len(kept) |->
            [service |-> Val(kept[i].service), role |-> Val(kept[i].role)]]

\* the return statement of invoke's try block
BuildOutput(arch, notes) ==
    AwsPatternSkillOutput(Get(arch, "pattern_labels", <<>>),
                          RecommendedServices(arch), notes)

\* invoke's except branch raising instead of returning
InvokeOnExceptionReraises == [raised |-> "TimeoutError"]

\* invoke's except branch: the empty assessment
InvokeOnException == EmptyOutput

\* a result() that returns without waiting for the task
FutureReadyNoWait(st) == TRUE

\* Future.result returns a value once the task is done
FutureReady(st) == st = "done"

SkillFrame == UNCHANGED <<vars, prev_run, bpvars, cdvars, vdvars, stvars>>

\* invoke is called: both tasks are submitted to a pool of two workers and
\* start at once; a task whose model call never answers is hung
SkillInvoke ==
    /\ sk_pc = "idle"
    /\ sk_pc' = "join_arch"
    /\ arch_st' \in {"running", "hung"}
    /\ crit_st' \in {"running", "hung"}
    /\ UNCHANGED <<sk_exc, arch_kind, crit_kind, arch_out, crit_out, rev_kind,
                   rev_args, sk_result>>
    /\ SkillFrame

\* the worker running ArchitectAgent.invoke returns
ArchitectReturns ==
    /\ arch_st = "running"
    /\ \E kind \in ReplyKinds, reply \in ArchitectReplies :
          /\ arch_kind' = kind
          /\ arch_out' = Some(AgentInvoke(kind, reply))
    /\ arch_st' = "done"
    /\ UNCHANGED <<sk_pc, sk_exc, crit_st, crit_kind, crit_out, rev_kind,
                   rev_args, sk_result>>
    /\ SkillFrame

\* the worker running CriticAgent.invoke returns
CriticReturns ==
    /\ crit_st = "running"
    /\ \E kind \in ReplyKinds, reply \in CriticReplies :
          /\ crit_kind' = kind
          /\ crit_out' = Some(AgentInvoke(kind, reply))
    /\ crit_st' = "done"
    /\ UNCHANGED <<sk_pc, sk_exc, arch_st, arch_kind, arch_out, rev_kind,
                   rev_args, sk_result>>
    /\ SkillFrame

\* arch_future.result(timeout=45) returns the Architect's dict
ArchResult ==
    /\ sk_pc = "join_arch"
    /\ FutureReady(arch_st)
    /\ sk_pc' = "join_crit"
    /\ UNCHANGED <<sk_exc, arch_st, crit_st, arch_kind, crit_kind, arch_out,
                   crit_out, rev_kind, rev_args, sk_result>>
    /\ SkillFrame

\* arch_future.result(timeout=45) raises TimeoutError: the with block is left
ArchResultTimeout ==
    /\ sk_pc = "join_arch"
    /\ arch_st # "done"
    /\ sk_exc' = "TimeoutError: architect"
    /\ sk_pc' = "shutdown"
    /\ UNCHANGED <<arch_st, crit_st, arch_kind, crit_kind, arch_out, crit_out,
                   rev_kind, rev_args, sk_result>>
    /\ SkillFrame

\* crit_future.result(timeout=45) returns: the with block is left by return
CritResult ==
    /\ sk_pc = "join_crit"
    /\ FutureReady(crit_st)
    /\ sk_pc' = "shutdown"
    /\ UNCHANGED <<sk_exc, arch_st, crit_st, arch_kind, crit_kind, arch_out,
                   crit_out, rev_kind, rev_args, sk_result>>
    /\ SkillFrame

\* crit_future.result(timeout=45) raises TimeoutError
CritResultTimeout ==
    /\ sk_pc = "join_crit"
    /\ crit_st # "done"
    /\ sk_exc' = "TimeoutError: critic"
    /\ sk_pc' = "shutdown"
    /\ UNCHANGED <<arch_st, crit_st, arch_kind, crit_kind, arch_out, crit_out,
                   rev_kind, rev_args, sk_result>>
    /\ SkillFrame

\* an exit of the with block that neither joins the workers nor lets the
\* timeout reach invoke
ExecutorShutdownNoWait ==
    /\ sk_pc = "shutdown"
    /\ sk_pc' = "review"
    /\ UNCHANGED <<sk_exc, arch_st, crit_st, arch_kind, crit_kind, arch_out,
                   crit_out, rev_kind, rev_args, sk_result>>
    /\ SkillFrame

\* ThreadPoolExecutor.__exit__: shutdown(wait=True) joins both workers; then
\* either the values reach invoke, or the exception reaches invoke's except
ExecutorShutdown ==
    /\ sk_pc = "shutdown"
    /\ arch_st = "done"
    /\ crit_st = "done"
    /\ IF sk_exc = ""
          THEN /\ sk_pc' = "review"
               /\ UNCHANGED sk_result
          ELSE /\ sk_pc' = "returned"
               /\ sk_result' = Some(InvokeOnException)
    /\ UNCHANGED <<sk_exc, arch_st, crit_st, arch_kind, crit_kind, arch_out,
                   crit_out, rev_kind, rev_args>>
    /\ SkillFrame

\* self._reviewer.synthesize(...) and the return of the assessment
ReviewerSynthesize ==
    /\ sk_pc = "review"
    /\ \E kind \in ReviewerKinds, text \in ReviewerTexts :
          /\ rev_kind' = kind
          /\ sk_result' = Some(BuildOutput(Val(arch_out),
                                 synthesize(kind, text, Val(arch_out), Val(crit_out))))
    /\ rev_args' = Some(<<Val(arch_out), Val(crit_out)>>)
    /\ sk_pc' = "returned"
    /\ UNCHANGED <<sk_exc, arch_st, crit_st, arch_kind, crit_kind, arch_out,
                   crit_out>>
    /\ SkillFrame

SkillNext ==
    \/ SkillInvoke
    \/ ArchitectReturns
    \/ CriticReturns
    \/ ArchResult
    \/ ArchResultTimeout
    \/ CritResult
    \/ CritResultTimeout
    \/ ExecutorShutdown
    \/ ReviewerSynthesize

\* one call of invoke on a fresh AwsMultiAgentSkillPipeline
SkillSpecInit == PipelineInit /\ max_retries = MaxRetriesBound

SkillSpec == SkillSpecInit /\ [][SkillNext]_allvars

AssessmentFields == {"pattern_labels", "recommended_services", "skill_notes"}

Returned == sk_pc = "returned"

\* C15: invoke never raises: whatever the Architect, the Critic and the
\* Reviewer did (answer, exception, malformed JSON, JSON that is not a map,
\* timeout), what invoke returns is an assessment with its three fields, and
\* it is the empty assessment after a timeout and when none of the three
\* calls produced anything.
C15_InvokeNeverRaises ==
    Returned =>
        /\ ~IsNone(sk_result)
        /\ DOMAIN Val(sk_result) = AssessmentFields
        /\ (sk_exc # "") => Val(sk_result) = EmptyOutput
        /\ (arch_kind # "ok" /\ crit_kind # "ok" /\ rev_kind # "ok")
              => Val(sk_result) = EmptyOutput

C15_Witness ==
    /\ Returned
    /\ arch_kind = "nonmap"
    /\ crit_kind = "malformed"
    /\ rev_kind = "exception"
    /\ Val(sk_result) = EmptyOutput

\* C16: when exactly one of Architect and Critic fails or times out, the
\* other one's dict is still handed to the Reviewer and shows in the result:
\* after a Critic timeout the result still has the Architect's labels and
\* recommendations.
C16_OneFailureKeepsOther ==
    Returned =>
        /\ (arch_kind = "ok" /\ sk_exc # "TimeoutError: architect"
              /\ (crit_kind # "ok" \/ sk_exc = "TimeoutError: critic"))
              => /\ ~IsNone(rev_args)
                 /\ Val(rev_args)[1] = Val(arch_out)
                 /\ Val(sk_result).pattern_labels
                       = Get(Val(arch_out), "pattern_labels", <<>>)
                 /\ Val(sk_result).recommended_services
                       = RecommendedServices(Val(arch_out))
        /\ (crit_kind = "ok" /\ sk_exc # "TimeoutError: critic"
              /\ (arch_kind # "ok" \/ sk_exc = "TimeoutError: architect"))
              => /\ ~IsNone(rev_args)
                 /\ Val(rev_args)[2] = Val(crit_out)

\* C17: in every interleaving the Reviewer is called only when both tasks
\* are over, and with the dicts they returned.
C17_ReviewerAfterBoth ==
    /\ (sk_pc = "review" \/ rev_kind # "")
          => arch_st = "done" /\ crit_st = "done" /\ sk_exc = ""
    /\ (rev_kind # "") => Val(rev_args) = <<Val(arch_out), Val(crit_out)>>

C17_Witness ==
    /\ Returned
    /\ rev_kind = "ok"
    /\ arch_kind = "ok"
    /\ crit_kind = "exception"

\* C18: the join timeout bounds the wait: while invoke has not returned,
\* some step is still possible, also when a task never completes.
C18_TimeoutBoundsWaiting ==
    (sk_pc \notin {"idle", "returned"}) => ENABLED SkillNext

\* C19 as stated: when the Reviewer's call fails, the note is the
\* Architect's note followed by all the gaps the Critic reported.
C19_FallbackHasAllGaps ==
    (rev_kind = "exception") =>
        LET an == Get(Val(rev_args)[1], "skill_notes", <<>>)
            g == Get(Val(rev_args)[2], "gaps", <<>>)
            note == Val(sk_result).skill_notes
        IN  /\ IsPrefix(an, note)
            /\ \A i \in 1..Len(g) : \E j \in (Len(an) + 1)..Len(note) : note[j] = g[i]

\* C19: when the Reviewer's call fails, invoke still returns an assessment,
\* and its note is fixed by the two dicts alone: the Architect's note, then,
\* when the Critic reported gaps, " Missing: ", the first two of them
\* separated by "; ", and "."; two empty dicts give the empty note.
C19_FallbackIsDeterministic ==
    (rev_kind = "exception") =>
        LET an == Get(Val(rev_args)[1], "skill_notes", <<>>)
            g == Get(Val(rev_args)[2], "gaps", <<>>)
            k == Min(2, Len(g))
            note == Val(sk_result).skill_notes
        IN  /\ Returned /\ sk_exc = ""
            /\ DOMAIN Val(sk_result) = AssessmentFields
            /\ IsPrefix(an, note)
            /\ (k = 0) => note = an
            /\ (k > 0) =>
                  /\ Len(note) = Len(an) + 2 * k + 1
                  /\ note[Len(an) + 1] = " Missing: "
                  /\ \A i \in 1..k : note[Len(an) + 2 * i] = g[i]
                  /\ \A i \in 1..(k - 1) : note[Len(an) + 2 * i + 1] = "; "
                  /\ note[Len(note)] = "."
            /\ (Val(rev_args) = <<EmptyDict, EmptyDict>>) => note = <<>>

C19_Witness ==
    /\ Returned
    /\ rev_kind = "exception"
    /\ Len(Get(Val(rev_args)[1], "skill_notes", <<>>)) > 0
    /\ Len(Get(Val(rev_args)[2], "gaps", <<>>)) = 3

-----------------------------------------------------------------------------
\* BlueprintCompiler: ArchitectureBlueprint.__str__ (nlp/models.py) and
\* BlueprintArchitect._parse_blueprint_text (nlp/architect.py)

\* A string is a sequence of pieces; "\n" and " " are pieces of their own,
\* and so is every keyword or punctuation mark the parser looks for.
Whitespace == {" ", "\n"}

\* the pieces that are identifiers: letters, digits and underscores, the
\* first one not a digit
IdentifierPieces == {"api", "fn", "db", "web"}

\* the pieces that match \w+
WordPieces == IdentifierPieces \cup {"1db"}

\* str.strip()
RECURSIVE LStrip(_)
LStrip(t) == IF Len(t) > 0 /\ t[1] \in Whitespace THEN LStrip(Tail(t)) ELSE t

RECURSIVE RStrip(_)
RStrip(t) ==
    IF Len(t) > 0 /\ t[Len(t)] \in Whitespace
       THEN RStrip(SubSeq(t, 1, Len(t) - 1)) ELSE t

Strip(t) == RStrip(LStrip(t))

\* str.find(piece): the first position of the piece, 0 when find gives -1
Find(t, piece) ==
    IF \E i \in 1..Len(t) : t[i] = piece
       THEN CHOOSE i \in 1..Len(t) : t[i] = piece /\ \A j \in 1..(i - 1) : t[j] # piece
       ELSE 0

\* str.split(sep)
RECURSIVE Split(_, _)
Split(t, sep) ==
    LET k == Find(t, sep)
    IN  IF k = 0 THEN <<t>>
        ELSE <<SubSeq(t, 1, k - 1)>> \o Split(SubSeq(t, k + 1, Len(t)), sep)

\* str.startswith(piece)
StartsWith(t, piece) == Len(t) > 0 /\ t[1] = piece

\* sep.join(texts)
RECURSIVE JoinTexts(_, _)
JoinTexts(texts, sep) ==
    IF Len(texts) = 0 THEN <<>>
    ELSE IF Len(texts) = 1 THEN texts[1]
    ELSE texts[1] \o sep \o JoinTexts(Tail(texts), sep)

\* the concatenation of a sequence of texts
RECURSIVE Concat(_)
Concat(texts) == IF Len(texts) = 0 THEN <<>> ELSE texts[1] \o Concat(Tail(texts))

\* ArchitectureBlueprint.__str__
NodeLine(node) ==
    <<"-", " ">> \o node.name \o <<" ", "as", " ">> \o node.variable
        \o <<" ", "(Type:", " ">> \o node.service_type \o <<")", "\n">>

ClusterLine(cluster) ==
    <<"-", " ">> \o cluster.name \o <<" ", "contains", " ">>
        \o JoinTexts(cluster.nodes, <<",", " ">>) \o <<"\n">>

RelationshipLine(rel) ==
    <<"-", " ">> \o rel.source \o <<" ", ">>", " ">> \o rel.destination \o <<"\n">>

Str(b) ==
    <<"---BEGIN_BLUEPRINT---", "\n">>
    \o <<"Title:", " ">> \o b.title \o <<"\n">>
    \o <<"Description:", " ">> \o b.description \o <<"\n", "\n">>
    \o <<"Nodes:", "\n">>
    \o Concat([i \in 1..Len(b.nodes) |-> NodeLine(b.nodes[i])])
    \o (IF Len(b.clusters) > 0
           THEN <<"\n", "Clusters:", "\n">>
                \o Concat([i \in 1..Len(b.clusters) |-> ClusterLine(b.clusters[i])])
           ELSE <<>>)
    \o <<"\n", "Relationships:", "\n">>
    \o Concat([i \in 1..Len(b.relationships) |-> RelationshipLine(b.relationships[i])])
    \o <<"---END_BLUEPRINT---", "\n">>

\* _parse_blueprint_text: what it returns, what it raises
ParseReturns(d) == [ok |-> TRUE, value |-> d]

\* a parser that answers a missing marker with the default blueprint
ParseRaisesDefault(msg) ==
    [ok |-> TRUE,
     value |-> [title |-> <<"Generated Architecture">>,
                description |-> <<"Architecture blueprint from natural language">>,
                nodes |-> <<>>, clusters |-> <<>>, relationships |-> <<>>]]

ParseRaises(msg) == [ok |-> FALSE, error |-> msg]

\* blueprint_dict before the first line is read
DefaultBlueprintDict ==
    [title |-> <<"Generated Architecture">>,
     description |-> <<"Architecture blueprint from natural language">>,
     nodes |-> <<>>, clusters |-> <<>>, relationships |-> <<>>]

Max(S) == CHOOSE x \in S : \A y \in S : y <= x

\* the value the loop over parts[1:] leaves for the parts that start with
\* the key: the last one wins, "" when there is none
PartValue(parts, key) ==
    LET idx == {k \in 2..Len(parts) : StartsWith(parts[k], key)}
    IN  IF idx = {} THEN <<>> ELSE Strip(Tail(parts[Max(idx)]))

\* a bullet of the Nodes section: name | ID: var | Type: service
ParseNodeLine(line, d) ==
    LET content == Strip(Tail(line))
        raw == Split(content, "|")
        parts == [k \in 1..Len(raw) |-> Strip(raw[k])]
        var_id == PartValue(parts, "ID:")
        service_type == PartValue(parts, "Type:")
    IN  IF Len(parts) >= 3 /\ var_id # <<>> /\ service_type # <<>>
           THEN [d EXCEPT !.nodes = Append(@, [name |-> parts[1],
                                               variable |-> var_id,
                                               service_type |-> service_type,
                                               region |-> NoneVal])]
           ELSE d

\* where the lookahead of a cluster block stops: at a blank line, at a
\* bullet, or behind the last line
RECURSIVE ClusterEnd(_, _)
ClusterEnd(lines, j) ==
    IF j > Len(lines) THEN j
    ELSE LET next_line == Strip(lines[j])
         IN  IF next_line = <<>> \/ StartsWith(next_line, "-")
                THEN j ELSE ClusterEnd(lines, j + 1)

\* the members of the block lines[i+1 .. j-1]: those of its last Members: line
ClusterMembers(lines, i, j) ==
    LET idx == {k \in (i + 1)..(j - 1) : StartsWith(Strip(lines[k]), "Members:")}
    IN  IF idx = {} THEN <<>>
        ELSE LET ms == Split(Strip(Tail(Strip(lines[Max(idx)]))), ",")
             IN  [k \in 1..Len(ms) |-> Strip(ms[k])]

AllWord(t) == Len(t) > 0 /\ \A k \in 1..Len(t) : t[k] \in WordPieces

\* a pattern without the anchors: the words around the first >> are taken
ParseRelationshipLineLoose(line, d) ==
    LET content == Strip(Tail(line))
        k == Find(content, ">>")
        left == RStrip(SubSeq(content, 1, k - 1))
        right == LStrip(SubSeq(content, k + 1, Len(content)))
    IN  IF k > 0 /\ Len(left) > 0 /\ Len(right) > 0
              /\ left[Len(left)] \in WordPieces /\ right[1] \in WordPieces
           THEN [d EXCEPT !.relationships =
                    Append(@, [source |-> <<left[Len(left)]>>,
                               destination |-> <<right[1]>>,
                               connection_type |-> <<"default">>])]
           ELSE d

\* a bullet of the Relationships section: ^(\w+)\s*>>\s*(\w+)$
ParseRelationshipLine(line, d) ==
    LET content == Strip(Tail(line))
        k == Find(content, ">>")
        source == RStrip(SubSeq(content, 1, k - 1))
        destination == LStrip(SubSeq(content, k + 1, Len(content)))
    IN  IF k > 0 /\ AllWord(source) /\ AllWord(destination)
           THEN [d EXCEPT !.relationships =
                    Append(@, [source |-> source, destination |-> destination,
                               connection_type |-> <<"default">>])]
           ELSE d

SectionOf(line) ==
    CASE line = <<"Nodes:">> -> "nodes"
      [] line = <<"Clusters:">> -> "clusters"
      [] line = <<"Relationships:">> -> "relationships"
      [] line = <<"Metadata:">> -> "metadata"
      [] OTHER -> ""

\* the while loop over the lines of the blueprint content
RECURSIVE ParseLines(_, _, _, _)
ParseLines(lines, i, current_section, d) ==
    IF i > Len(lines) THEN d
    ELSE LET line == Strip(lines[i])
         IN  IF line = <<>>
                THEN ParseLines(lines, i + 1, current_section, d)
             ELSE IF StartsWith(line, "Title:")
                THEN ParseLines(lines, i + 1, current_section,
                                [d EXCEPT !.title = Strip(Tail(line))])
             ELSE IF StartsWith(line, "Description:")
                THEN ParseLines(lines, i + 1, current_section,
                                [d EXCEPT !.description = Strip(Tail(line))])
             ELSE IF SectionOf(line) # ""
                THEN ParseLines(lines, i + 1, SectionOf(line), d)
             ELSE IF StartsWith(line, "-") /\ current_section = "nodes"
                THEN ParseLines(lines, i + 1, current_section, ParseNodeLine(line, d))
             ELSE IF StartsWith(line, "Cluster:") /\ current_section = "clusters"
                THEN LET j == ClusterEnd(lines, i + 1)
                     IN  ParseLines(lines, j, current_section,
                             [d EXCEPT !.clusters =
                                 Append(@, [name |-> Strip(Tail(line)),
                                            nodes |-> ClusterMembers(lines, i, j)])])
             ELSE IF StartsWith(line, "-") /\ current_section = "relationships"
                THEN ParseLines(lines, i + 1, current_section,
                                ParseRelationshipLine(line, d))
             ELSE ParseLines(lines, i + 1, current_section, d)

\* a parser that gives up when the end marker is missing
parse_blueprint_text_strict(text) ==
    LET start_idx == Find(text, "---BEGIN_BLUEPRINT---")
        end_idx == Find(text, "---END_BLUEPRINT---")
    IN  IF start_idx = 0 \/ end_idx = 0
           THEN ParseRaises("Blueprint marker not found in response")
           ELSE ParseReturns(
                   ParseLines(Split(Strip(SubSeq(text, start_idx + 1, end_idx - 1)), "\n"),
                              1, "", DefaultBlueprintDict))

\* _parse_blueprint_text; a position 0 stands for find's -1, and the end
\* of the text for len(text)
parse_blueprint_text(text) ==
    LET start_primary == Find(text, "---BEGIN_BLUEPRINT---")
        end_found == Find(text, "---END_BLUEPRINT---")
        start_idx == IF start_primary # 0 THEN start_primary
                     ELSE Find(text, "BEGIN_BLUEPRINT")
        end_idx == IF end_found # 0 THEN end_found ELSE Len(text) + 1
    IN  IF start_idx = 0
           THEN ParseRaises("Blueprint start marker not found in response")
           ELSE ParseReturns(
                   ParseLines(Split(Strip(SubSeq(text, start_idx + 1, end_idx - 1)), "\n"),
                              1, "", DefaultBlueprintDict))

\* the warnings _parse_blueprint_text logs
ParseLog(text) ==
    LET start_primary == Find(text, "---BEGIN_BLUEPRINT---")
        end_found == Find(text, "---END_BLUEPRINT---")
    IN  IF start_primary # 0 /\ end_found = 0
           THEN << <<"warning", "END_BLUEPRINT marker not found - response may be truncated, using end of text">> >>
        ELSE IF start_primary = 0 /\ Find(text, "BEGIN_BLUEPRINT") # 0 /\ end_found = 0
           THEN << <<"warning", "Using end of text as response may be incomplete">> >>
        ELSE <<>>

\* the longest node list of a blueprint that is formatted
MaxNodes == 2

Node(name, variable, service_type) ==
    [name |-> name, variable |-> variable, service_type |-> service_type,
     region |-> NoneVal]

NodeSamples ==
    { Node(<<"API", " ", "Gateway">>, <<"api">>, <<"APIGateway">>),
      Node(<<"Worker">>, <<"fn">>, <<"Lambda">>),
      Node(<<"Orders">>, <<"db">>, <<"Dynamodb">>) }

NodeSeqs == UNION {[1..n -> NodeSamples] : n \in 0..MaxNodes}

Variables(nodes) == [i \in 1..Len(nodes) |-> nodes[i].variable]

\* no cluster, or one cluster holding every node
ClusterChoices(nodes) ==
    {<<>>} \cup (IF Len(nodes) > 0
                    THEN {<<[name |-> <<"Backend">>, nodes |-> Variables(nodes)]>>}
                    ELSE {})

\* no relationship, or one between two nodes of the list
RelationshipChoices(nodes) ==
    {<<>>} \cup
    { <<[source |-> nodes[i].variable, destination |-> nodes[j].variable,
         connection_type |-> <<"default">>]>> :
        <<i, j>> \in {p \in (1..Len(nodes)) \X (1..Len(nodes)) : p[1] # p[2]} }

Blueprints ==
    UNION { { [title |-> <<"Orders", " ", "API">>,
               description |-> <<"Serverless", " ", "orders">>,
               nodes |-> nodes, clusters |-> cs, relationships |-> rs] :
              cs \in ClusterChoices(nodes), rs \in RelationshipChoices(nodes) } :
            nodes \in NodeSeqs }

NoDuplicateIds(b) ==
    \A i, j \in 1..Len(b.nodes) :
        b.nodes[i].variable = b.nodes[j].variable => i = j

\* a model answer in the format SYSTEM_PROMPT prescribes
PromptNodeLine(node) ==
    <<"-", " ">> \o node.name \o <<" ", "|", " ", "ID:", " ">> \o node.variable
        \o <<" ", "|", " ", "Type:", " ">> \o node.service_type
        \o <<" ", "|", " ", "Category:", " ", "compute", "\n">>

PromptClusterBlock(cluster) ==
    <<"-", " ", "Cluster:", " ">> \o cluster.name \o <<"\n">>
        \o <<" ", " ", "Type:", " ", "Logical", "\n">>
        \o <<" ", " ", "Members:", " ">> \o JoinTexts(cluster.nodes, <<",", " ">>)
        \o <<"\n">>

\* What a model call answers is described by its lines: which begin
\* marker it has, whether it has the end marker, the form of every node,
\* cluster and relationship line, and how many pieces the cut-off of the
\* generation removed from its end.
BeginMarker(kind) ==
    CASE kind = "primary" -> <<"---BEGIN_BLUEPRINT---", "\n">>
      [] kind = "alt" -> <<"BEGIN_BLUEPRINT", "\n">>
      [] OTHER -> <<>>

AnswerHeader(a) ==
    BeginMarker(a.begin)
    \o <<"Title:", " ", "Orders", " ", "API", "\n">>
    \o <<"Description:", " ", "Serverless", " ", "orders", "\n", "\n">>
    \o <<"Nodes:", "\n">>

NodeForms == {"full", "no_id", "no_type"}

\* a node bullet: as prescribed, or lacking its ID: part or its Type: part
AnswerNodeLine(l) ==
    CASE l.form = "full" -> PromptNodeLine(l.node)
      [] l.form = "no_id" ->
            <<"-", " ">> \o l.node.name \o <<" ", "|", " ", "Type:", " ">>
                \o l.node.service_type
                \o <<" ", "|", " ", "Category:", " ", "compute", "\n">>
      [] l.form = "no_type" ->
            <<"-", " ">> \o l.node.name \o <<" ", "|", " ", "ID:", " ">>
                \o l.node.variable
                \o <<" ", "|", " ", "Category:", " ", "compute", "\n">>

\* a cluster block whose header is not a bullet
BareClusterBlock(cluster) ==
    <<"Cluster:", " ">> \o cluster.name \o <<"\n">>
        \o <<" ", " ", "Type:", " ", "Logical", "\n">>
        \o <<" ", " ", "Members:", " ">> \o JoinTexts(cluster.nodes, <<",", " ">>)
        \o <<"\n">>

AnswerClusterBlock(style, cluster) ==
    IF style = "bullet" THEN PromptClusterBlock(cluster) ELSE BareClusterBlock(cluster)

RelationshipForms == {"plain", "tight", "chain", "label", "no_dest", "no_source"}

\* a relationship bullet: a >> b, a>>b, a >> b >> a, a >> b : HTTPS, a >>, >> b
AnswerRelationshipLine(l) ==
    LET a == l.rel.source
        b == l.rel.destination
    IN  CASE l.form = "plain" -> RelationshipLine(l.rel)
          [] l.form = "tight" -> <<"-", " ">> \o a \o <<">>">> \o b \o <<"\n">>
          [] l.form = "chain" ->
                <<"-", " ">> \o a \o <<" ", ">>", " ">> \o b \o <<" ", ">>", " ">>
                    \o a \o <<"\n">>
          [] l.form = "label" ->
                <<"-", " ">> \o a \o <<" ", ">>", " ">> \o b
                    \o <<" ", ":", " ", "HTTPS", "\n">>
          [] l.form = "no_dest" -> <<"-", " ">> \o a \o <<" ", ">>", "\n">>
          [] l.form = "no_source" -> <<"-", " ", ">>", " ">> \o b \o <<"\n">>

AnswerNodesPart(a) ==
    Concat([i \in 1..Len(a.nodes) |-> AnswerNodeLine(a.nodes[i])])

AnswerClustersPart(a) ==
    <<"\n", "Clusters:", "\n">>
    \o Concat([i \in 1..Len(a.clusters) |->
                  AnswerClusterBlock(a.cluster_style, a.clusters[i])])

AnswerRelationshipsHead == <<"\n", "Relationships:", "\n">>

AnswerRelationshipsPart(a) ==
    Concat([i \in 1..Len(a.rels) |-> AnswerRelationshipLine(a.rels[i])])

AnswerTail(a) ==
    <<"\n", "Metadata:", "\n", "-", " ", "Security_Risk:", " ", "Low", "\n">>
    \o (IF a.end THEN <<"---END_BLUEPRINT---">> ELSE <<>>)

\* the Relationships: header of an answer: after a blank line, or, in the
\* tight style, directly after the last line of the cluster block
AnswerRelationshipsHeadOf(a) ==
    IF a.cluster_style = "tight" THEN <<"Relationships:", "\n">>
    ELSE AnswerRelationshipsHead

\* the whole answer, before the cut-off
FullAnswerText(a) ==
    AnswerHeader(a) \o AnswerNodesPart(a) \o AnswerClustersPart(a)
        \o AnswerRelationshipsHeadOf(a) \o AnswerRelationshipsPart(a)
        \o AnswerTail(a)

\* the answer as the model call returns it
AnswerText(a) == SubSeq(FullAnswerText(a), 1, Len(FullAnswerText(a)) - a.cut)

Answer(begin, end, nodes, cluster_style, clusters, rels, cut) ==
    [begin |-> begin, end |-> end, nodes |-> nodes,
     cluster_style |-> cluster_style, clusters |-> clusters, rels |-> rels,
     cut |-> cut]

FullLines(nodes) == [i \in 1..Len(nodes) |-> [node |-> nodes[i], form |-> "full"]]

Relationship(source, destination) ==
    [source |-> source, destination |-> destination,
     connection_type |-> <<"default">>]

PlainLine(source, destination) ==
    [rel |-> Relationship(source, destination), form |-> "plain"]

\* nodes an answer may also declare: an ID with a hyphen, an ID that starts
\* with a digit
AnswerNodes ==
    NodeSamples \cup { Node(<<"Cache">>, <<"my-db">>, <<"ElastiCache">>),
                       Node(<<"Queue">>, <<"1db">>, <<"SQS">>) }

AnswerNodeSeqs == [1..MaxNodes -> AnswerNodes]

BaseNodeSeqs ==
    {ns \in [1..MaxNodes -> NodeSamples] :
        \A i, j \in 1..MaxNodes : ns[i] = ns[j] => i = j}

WholeCluster(ns) == <<[name |-> <<"Backend">>, nodes |-> Variables(ns)]>>

FirstToLast(ns) == <<PlainLine(ns[1].variable, ns[Len(ns)].variable)>>

\* answers in the prescribed format; the cluster and the relationship name
\* the nodes of ns, of which the first one may be left undeclared
WellFormedAnswers ==
    { Answer(bg, TRUE, FullLines(declared), st, WholeCluster(ns), FirstToLast(ns), 0) :
        <<bg, st, ns, declared>> \in
            { q \in {"primary", "alt"} \X {"bullet", "bare"} \X AnswerNodeSeqs
                      \X (AnswerNodeSeqs \cup {Tail(x) : x \in AnswerNodeSeqs}) :
                q[4] \in {q[3], Tail(q[3])} } }

\* answers the generation cut off: no end marker, and any number of pieces
\* missing from the end, the begin marker always kept
UntruncatedAnswers ==
    { Answer(bg, FALSE, FullLines(ns), "bare", WholeCluster(ns), FirstToLast(ns), 0) :
        bg \in {"primary", "alt"}, ns \in BaseNodeSeqs }

TruncatedAnswers ==
    UNION { { [a EXCEPT !.cut = c] : c \in 0..(Len(FullAnswerText(a)) - 1) } :
            a \in UntruncatedAnswers }

\* answers with no begin marker, with and without the end marker
UnmarkedAnswers ==
    { Answer("none", e, FullLines(ns), "bare", WholeCluster(ns), FirstToLast(ns), 0) :
        e \in BOOLEAN, ns \in BaseNodeSeqs }

\* answers whose node bullets come in every form
NodeFormAnswers ==
    { Answer("primary", TRUE, lines, "bare", <<>>, <<>>, 0) :
        lines \in [1..MaxNodes -> [node : NodeSamples, form : NodeForms]] }

RelationshipIds == {<<"api">>, <<"1db">>, <<"my-db">>}

\* answers whose first relationship bullet comes in every form
RelationshipFormAnswers ==
    { Answer("primary", TRUE, <<>>, "bare", <<>>,
             <<[rel |-> Relationship(x, y), form |-> f], PlainLine(<<"fn">>, <<"db">>)>>, 0) :
        x \in RelationshipIds, y \in RelationshipIds, f \in RelationshipForms }

\* answers with no blank line between the cluster block and the
\* Relationships: header
TightAnswers ==
    { Answer("primary", TRUE, FullLines(ns), "tight", WholeCluster(ns), FirstToLast(ns), 0) :
        ns \in BaseNodeSeqs }

Answers ==
    WellFormedAnswers \cup TruncatedAnswers \cup UnmarkedAnswers
        \cup NodeFormAnswers \cup RelationshipFormAnswers \cup TightAnswers

BlueprintFrame == UNCHANGED <<vars, prev_run, skvars, cdvars, vdvars, stvars>>

\* an ArchitectureBlueprint object is built
NewArchitectureBlueprint ==
    /\ bp_pc = "idle"
    /\ \E b \in Blueprints : bp_in' = Some(b)
    /\ bp_pc' = "built"
    /\ UNCHANGED <<bp_text, bp_parsed, bp_answer, bp_log, bp_result>>
    /\ BlueprintFrame

\* str(blueprint)
FormatBlueprint ==
    /\ bp_pc = "built"
    /\ bp_text' = Some(Str(Val(bp_in)))
    /\ bp_pc' = "text"
    /\ UNCHANGED <<bp_in, bp_parsed, bp_answer, bp_log, bp_result>>
    /\ BlueprintFrame

\* analyze: response.text of the model call
ModelResponds ==
    /\ bp_pc = "idle"
    /\ \E a \in Answers :
          /\ bp_answer' = Some(a)
          /\ bp_text' = Some(Strip(AnswerText(a)))
    /\ bp_pc' = "text"
    /\ UNCHANGED <<bp_in, bp_parsed, bp_log, bp_result>>
    /\ BlueprintFrame

\* what analyze raises when _parse_blueprint_text raised
AnalyzeRaises(parse_error) ==
    [ok |-> FALSE, error |-> "Blueprint format invalid. Got: ...",
     cause |-> parse_error]

\* analyze after _parse_blueprint_text: the ValueError is logged and raised
\* again in other words, an empty node list is logged, and the dict becomes
\* an ArchitectureBlueprint without further checks
AnalyzeReturns ==
    /\ bp_pc = "parsed"
    /\ ~IsNone(bp_answer)
    /\ IF ~Val(bp_parsed).ok
          THEN /\ bp_result' = Some(AnalyzeRaises(Val(bp_parsed).error))
               /\ bp_log' = bp_log \o << <<"error", "Parse error">>,
                                        <<"error", "Blueprint generation failed">> >>
          ELSE /\ bp_result' = Some([ok |-> TRUE, blueprint |-> Val(bp_parsed).value])
               /\ bp_log' = bp_log \o
                      (IF Val(bp_parsed).value.nodes = <<>>
                          THEN << <<"warning", "No nodes parsed from blueprint. Response may be incomplete.">> >>
                          ELSE <<>>)
    /\ bp_pc' = "returned"
    /\ UNCHANGED <<bp_in, bp_text, bp_parsed, bp_answer>>
    /\ BlueprintFrame

\* _parse_blueprint_text(text)
ParseBlueprintText ==
    /\ bp_pc = "text"
    /\ bp_parsed' = Some(parse_blueprint_text(Val(bp_text)))
    /\ bp_log' = bp_log \o ParseLog(Val(bp_text))
    /\ bp_pc' = "parsed"
    /\ UNCHANGED <<bp_in, bp_text, bp_answer, bp_result>>
    /\ BlueprintFrame

BlueprintNext ==
    \/ NewArchitectureBlueprint
    \/ FormatBlueprint
    \/ ModelResponds
    \/ ParseBlueprintText
    \/ AnalyzeReturns

BlueprintSpecInit == PipelineInit /\ max_retries = MaxRetriesBound

BlueprintSpec == BlueprintSpecInit /\ [][BlueprintNext]_allvars

\* C20: for every blueprint with no duplicate variable ids, parsing the text
\* that __str__ produced returns a blueprint with the same nodes, the same
\* clusters (names and members) and the same relationships.
C20_FormatCompileRoundTrip ==
    (bp_pc = "parsed" /\ ~IsNone(bp_in) /\ NoDuplicateIds(Val(bp_in))) =>
        /\ Val(bp_parsed).ok
        /\ Val(bp_parsed).value.nodes = Val(bp_in).nodes
        /\ Val(bp_parsed).value.clusters = Val(bp_in).clusters
        /\ Val(bp_parsed).value.relationships = Val(bp_in).relationships

\* a model answer was parsed
AnswerParsed == bp_pc \in {"parsed", "returned"} /\ ~IsNone(bp_answer)

\* the number of pieces of the answer that the cut-off left
Kept(a) == Len(FullAnswerText(a)) - a.cut

RECURSIVE SumLen(_, _)
SumLen(texts, n) == IF n = 0 THEN 0 ELSE Len(texts[n]) + SumLen(texts, n - 1)

\* the position in the full answer of the last piece of the Type: value of
\* the i-th node bullet (written in full)
NodeLineEnd(a, i) ==
    Len(AnswerHeader(a))
    + SumLen([j \in 1..Len(a.nodes) |-> AnswerNodeLine(a.nodes[j])], i - 1)
    + 2 + Len(a.nodes[i].node.name) + 5 + Len(a.nodes[i].node.variable)
    + 5 + Len(a.nodes[i].node.service_type)

\* the position in the full answer of the destination of the i-th
\* relationship bullet (written plainly)
RelationshipLineEnd(a, i) ==
    Len(AnswerHeader(a)) + Len(AnswerNodesPart(a)) + Len(AnswerClustersPart(a))
    + Len(AnswerRelationshipsHead)
    + SumLen([j \in 1..Len(a.rels) |-> AnswerRelationshipLine(a.rels[j])], i - 1)
    + 2 + Len(a.rels[i].rel.source) + 3 + Len(a.rels[i].rel.destination)

\* the node and relationship bullets that are whole in what the cut-off left
WholeNodes(a) ==
    LET n == Cardinality({i \in 1..Len(a.nodes) : NodeLineEnd(a, i) <= Kept(a)})
    IN  [i \in 1..n |-> a.nodes[i].node]

WholeRelationships(a) ==
    LET n == Cardinality({i \in 1..Len(a.rels) : RelationshipLineEnd(a, i) <= Kept(a)})
    IN  [i \in 1..n |-> a.rels[i].rel]

\* C21: truncation tolerance: a text with a begin marker and no end marker
\* is parsed without failing, up to its end: every node bullet and every
\* relationship bullet that is whole in it is returned, and nothing else.
C21_TruncationTolerated ==
    (AnswerParsed /\ Val(bp_answer).begin # "none" /\ ~Val(bp_answer).end) =>
        /\ Val(bp_parsed).ok
        /\ Val(bp_parsed).value.nodes = WholeNodes(Val(bp_answer))
        /\ Val(bp_parsed).value.relationships = WholeRelationships(Val(bp_answer))
        /\ (bp_pc = "returned") => Val(bp_result).ok

C21_Witness ==
    /\ bp_pc = "returned"
    /\ ~Val(bp_answer).end
    /\ Val(bp_answer).cut > 0
    /\ Len(Val(bp_answer).nodes) = MaxNodes
    /\ Len(Val(bp_result).blueprint.nodes) = 1

\* C22: a text with no begin marker, with or without an end marker, makes
\* _parse_blueprint_text raise an error that names the start marker; analyze
\* raises as well, with that error as its cause, and no blueprint is
\* returned, not even a default one.
C22_NoBeginMarkerFails ==
    (AnswerParsed /\ Val(bp_answer).begin = "none") =>
        /\ ~Val(bp_parsed).ok
        /\ Val(bp_parsed).error = "Blueprint start marker not found in response"
        /\ (bp_pc = "returned") =>
              /\ ~Val(bp_result).ok
              /\ Val(bp_result).cause = "Blueprint start marker not found in response"
              /\ "blueprint" \notin DOMAIN Val(bp_result)

C22_Witness ==
    /\ bp_pc = "returned"
    /\ Val(bp_answer).begin = "none"
    /\ Val(bp_answer).end
    /\ Find(Val(bp_text), "---END_BLUEPRINT---") # 0
    /\ ~Val(bp_result).ok

IsIdentifier(t) ==
    /\ Len(t) > 0
    /\ t[1] \in IdentifierPieces
    /\ \A k \in 1..Len(t) : t[k] \in WordPieces

\* C23: in every blueprint the parser returns, the variable ids of the nodes
\* are pairwise distinct and each one is a valid identifier.
C23_IdsUniqueAndValid ==
    (AnswerParsed /\ Val(bp_parsed).ok) =>
        LET ns == Val(bp_parsed).value.nodes
        IN  /\ \A i, j \in 1..Len(ns) : ns[i].variable = ns[j].variable => i = j
            /\ \A i \in 1..Len(ns) : IsIdentifier(ns[i].variable)

DeclaredIds(d) == {d.nodes[i].variable : i \in 1..Len(d.nodes)}

\* C24: referential integrity: in every blueprint the parser returns, each
\* cluster member and each relationship source and destination is the
\* variable id of a node of that blueprint.
C24_ReferencesDeclared ==
    (AnswerParsed /\ Val(bp_parsed).ok) =>
        LET d == Val(bp_parsed).value
        IN  /\ \A i \in 1..Len(d.clusters) : \A k \in 1..Len(d.clusters[i].nodes) :
                  d.clusters[i].nodes[k] \in DeclaredIds(d)
            /\ \A i \in 1..Len(d.relationships) :
                  /\ d.relationships[i].source \in DeclaredIds(d)
                  /\ d.relationships[i].destination \in DeclaredIds(d)

\* the nodes of the node bullets that have both an ID: and a Type: part
FullFormNodes(a) ==
    LET kept == SelectSeq(a.nodes, LAMBDA l : l.form = "full")
    IN  [i \in 1..Len(kept) |-> kept[i].node]

Warnings == {k \in 1..Len(bp_log) : bp_log[k][1] = "warning"}

\* C25: a node bullet without ID: or without Type: is dropped with a
\* warning and the parse does not fail: the nodes returned are those of the
\* other bullets, in the order of the text.
C25_MalformedNodeDroppedWithWarning ==
    (bp_pc = "returned" /\ ~IsNone(bp_answer)
        /\ Val(bp_answer).begin # "none" /\ Val(bp_answer).end) =>
        /\ Val(bp_result).ok
        /\ Val(bp_result).blueprint.nodes = FullFormNodes(Val(bp_answer))
        /\ (\E i \in 1..Len(Val(bp_answer).nodes) : Val(bp_answer).nodes[i].form # "full")
              => Warnings # {}

\* the relationships of the bullets of the form a >> b or a>>b whose two
\* sides are among the given ids
AcceptedRelationships(a, ids) ==
    LET kept == SelectSeq(a.rels, LAMBDA l : /\ l.form \in {"plain", "tight"}
                                             /\ l.rel.source \in ids
                                             /\ l.rel.destination \in ids)
    IN  [i \in 1..Len(kept) |-> kept[i].rel]

IsWord(t) == Len(t) > 0 /\ \A k \in 1..Len(t) : t[k] \in WordPieces

\* every id an answer uses
AnswerIds == {n.variable : n \in AnswerNodes}

IdentifierIds == {t \in AnswerIds : IsIdentifier(t)}

WordIds == {t \in AnswerIds : IsWord(t)}

\* the Relationships: header of the answer is read as a header: it is not
\* taken into the lines of a cluster block that stands directly before it
RelationshipsHeaderRead(a) == ~(a.cluster_style = "tight" /\ a.clusters # <<>>)

\* C26 as stated: a bullet of the Relationships section yields a
\* relationship if and only if it is two identifiers separated by >>.
C26_AcceptsIffTwoIdentifiers ==
    (AnswerParsed /\ Val(bp_answer).begin # "none" /\ Val(bp_answer).end
        /\ RelationshipsHeaderRead(Val(bp_answer))) =>
        /\ Val(bp_parsed).ok
        /\ Val(bp_parsed).value.relationships
              = AcceptedRelationships(Val(bp_answer), IdentifierIds)

\* C26: a bullet of the Relationships section yields a relationship if and
\* only if it is two words (letters, digits, underscores, a leading digit
\* allowed) separated by >>; a chain, a trailing label, a missing side and a
\* hyphenated id are skipped without failing; an accepted bullet yields one
\* relationship with its source, its destination and the type "default".
C26_AcceptsIffTwoWords ==
    (AnswerParsed /\ Val(bp_answer).begin # "none" /\ Val(bp_answer).end
        /\ RelationshipsHeaderRead(Val(bp_answer))) =>
        /\ Val(bp_parsed).ok
        /\ Val(bp_parsed).value.relationships
              = AcceptedRelationships(Val(bp_answer), WordIds)

C26_Witness ==
    /\ AnswerParsed
    /\ Len(Val(bp_answer).rels) = 2
    /\ Val(bp_answer).rels[1].form = "plain"
    /\ Val(bp_answer).rels[1].rel.source = <<"1db">>
    /\ Val(bp_answer).rels[1].rel.destination = <<"api">>
    /\ Len(Val(bp_parsed).value.relationships) = 2

\* C27: a cluster block in the format the prompt prescribes ("- Cluster:
\* name", then a Type: line and a Members: line) is parsed into one cluster
\* with that name and those member ids, in order.
C27_PromptClusterParsed ==
    (AnswerParsed /\ Val(bp_answer).begin # "none" /\ Val(bp_answer).end
        /\ Val(bp_answer).cluster_style = "bullet") =>
        /\ Val(bp_parsed).ok
        /\ Val(bp_parsed).value.clusters = Val(bp_answer).clusters

\* DiagramCoderChain (langchain_chains.py and nlp/chains.py): the code a
\* model call answers, its cleaning and its validation

\* str.count(piece)
Count(t, piece) == Cardinality({i \in 1..Len(t) : t[i] = piece})

\* str.count of a two-character string such as \' : the places where the
\* first character is followed by the second
CountPair(t, first, second) ==
    Cardinality({i \in 1..(Len(t) - 1) : t[i] = first /\ t[i + 1] = second})

\* str.replace(piece, "")
Remove(t, piece) == SelectSeq(t, LAMBDA p : p # piece)

\* str.startswith(prefix) for a prefix of several pieces
StartsWithText(t, prefix) ==
    Len(t) >= Len(prefix) /\ SubSeq(t, 1, Len(prefix)) = prefix

\* piece in text
Contains(t, piece) == Find(t, piece) # 0

\* the error a validation step raises: its message, and the line number and
\* the line text the message carries (0 and the empty text when it has none)
CodeError(message, line, text) ==
    [message |-> message, line |-> line, text |-> text]

\* DiagramCoderChain._validate_no_imports of nlp/chains.py: the error it
\* raises, or no error
validate_no_imports(source) ==
    LET lines == Split(source, "\n")
        found == {i \in 1..Len(lines) :
                     \/ StartsWithText(Strip(lines[i]), <<"import", " ">>)
                     \/ StartsWithText(Strip(lines[i]), <<"from", " ">>)}
    IN  IF found = {} THEN NoneVal
        ELSE LET first == CHOOSE i \in found : \A j \in found : i <= j
             IN  Some(CodeError(
                    "Generated code contains forbidden import statement",
                    0, Strip(lines[first])))

\* the test of _validate_generated_code on one line: the quotes that do not
\* come right after a backslash are odd in number
OddQuotes(line) ==
    LET actual_single == Count(line, "'") - CountPair(line, "\\", "'")
        actual_double == Count(line, "\"") - CountPair(line, "\\", "\"")
    IN  actual_single % 2 # 0 \/ actual_double % 2 # 0

\* _validate_generated_code without its count of parentheses
validate_generated_code_quotes_only(source) ==
    LET lines == Split(source, "\n")
        bad == {i \in 1..Len(lines) :
                   ~StartsWith(Strip(lines[i]), "#") /\ OddQuotes(lines[i])}
    IN  IF bad # {}
           THEN LET idx == CHOOSE i \in bad : \A j \in bad : i <= j
                IN  Some(CodeError("Unterminated string on line", idx,
                                   Strip(lines[idx])))
        ELSE NoneVal

\* DiagramCoderChain._validate_generated_code (the same in both modules):
\* the error it raises, or no error
validate_generated_code(source) ==
    LET lines == Split(source, "\n")
        bad == {i \in 1..Len(lines) :
                   ~StartsWith(Strip(lines[i]), "#") /\ OddQuotes(lines[i])}
    IN  IF bad # {}
           THEN LET idx == CHOOSE i \in bad : \A j \in bad : i <= j
                IN  Some(CodeError("Unterminated string on line", idx,
                                   Strip(lines[idx])))
        ELSE IF Count(source, "(") # Count(source, ")")
           THEN Some(CodeError("Unmatched parentheses in generated code",
                               0, <<>>))
        ELSE NoneVal

\* the names _fix_invalid_service_names leaves alone
SafeList == {"Diagram", "Cluster", "Edge", "Users", "Internet", "Rack"}

\* the pieces of letters and digits that start with a capital letter
ClassNamePieces ==
    SafeList \cup {"Lambda", "My", "Service", "DynamoDB", "DynamodbTable",
                   "CloudWatch", "Cloudwatch", "EventBridge", "Eventbridge",
                   "X", "Ray", "XRay", "Secrets", "Manager", "SecretsManager",
                   "GuardDuty"}

\* the pieces made of letters and digits; two of them in a row are one name
AlnumPieces ==
    ClassNamePieces \cup {"x", "a", "b", "with", "import", "from", "aws"}

\* entries of the replacements table of _fix_invalid_service_names, in its
\* order: the text before "(" and what stands for it afterwards
Replacements ==
    << <<<<"DynamoDB">>, "DynamodbTable">>,
       <<<<"EventBridge">>, "Eventbridge">>,
       <<<<"CloudWatch">>, "Cloudwatch">>,
       <<<<"X", "-", "Ray">>, "XRay">>,
       <<<<"Secrets">>, "SecretsManager">>,
       <<<<"Secrets", " ", "Manager">>, "SecretsManager">>,
       <<<<"GuardDuty">>, "Rack">> >>

\* re.sub(pattern, replacement, code) for one entry of the table
RECURSIVE Sub(_, _, _)
Sub(source, alias, replacement) ==
    IF Len(source) = 0 THEN <<>>
    ELSE IF StartsWithText(source, alias \o <<"(">>)
       THEN <<replacement, "(">>
                \o Sub(SubSeq(source, Len(alias) + 2, Len(source)),
                       alias, replacement)
    ELSE <<Head(source)>> \o Sub(Tail(source), alias, replacement)

\* the loop over the table, from entry k on
RECURSIVE ApplyReplacements(_, _)
ApplyReplacements(source, k) ==
    IF k > Len(Replacements) THEN source
    ELSE ApplyReplacements(
             Sub(source, Replacements[k][1], Replacements[k][2]), k + 1)

\* where the name that ends at place i starts
RECURSIVE RunStart(_, _)
RunStart(source, i) ==
    IF i > 1 /\ source[i - 1] \in AlnumPieces
       THEN RunStart(source, i - 1) ELSE i

\* the places of the letters-and-digits pieces right before a "("
CallEnds(source) ==
    {i \in 1..(Len(source) - 1) :
        source[i] \in AlnumPieces /\ source[i + 1] = "("}

\* the pattern \b([A-Z][a-zA-Z0-9]*)\( matches the name that ends at place
\* i, and the name is not one of the safe list
CatchAllMatches(source, i) ==
    LET j == RunStart(source, i)
    IN  /\ source[j] \in ClassNamePieces
        /\ (j = 1 \/ source[j - 1] # "_")
        /\ ~(j = i /\ source[i] \in SafeList)

\* the catch-all substitution: every matched name becomes Rack
CatchAll(source) ==
    Concat([k \in 1..Len(source) |->
        IF \E i \in CallEnds(source) :
              CatchAllMatches(source, i) /\ RunStart(source, i) <= k /\ k <= i
           THEN IF k \in CallEnds(source) THEN <<"Rack">> ELSE <<>>
        ELSE <<source[k]>>])

\* DiagramCoderChain._fix_invalid_service_names of nlp/chains.py: the
\* replacements of the table, then the catch-all
fix_invalid_service_names(source) == CatchAll(ApplyReplacements(source, 1))

\* the two modules that define a DiagramCoderChain class
CoderClasses == {"langchain_chains", "nlp.chains"}

\* the one langgraph_pipeline imports
PipelineCoderClass == "langchain_chains"

\* the markdown fences: three backticks, with and without the language
PythonFence == "<fence>python"

Fence == "<fence>"

\* response.content.strip() without its markdown fences
CleanCode(response) ==
    Strip(Remove(Remove(Strip(response), PythonFence), Fence))

\* what invoke does with an exception: it raises a ValueError that starts
\* with "Code generation failed: " and goes on with the text of the cause
InvokeRaises(cause) ==
    [ok |-> FALSE, prefix |-> "Code generation failed: ", cause |-> cause]

InvokeReturns(source) == [ok |-> TRUE, code |-> source]

\* what is left of invoke once the code passed its checks
ValidateAndReturn(source) ==
    IF ~IsNone(validate_generated_code(source))
       THEN InvokeRaises(Val(validate_generated_code(source)))
    ELSE InvokeReturns(source)

\* DiagramCoderChain.invoke from the response of the model call on
invoke(class, response) ==
    LET source == CleanCode(response)
    IN  IF ~Contains(source, "Diagram")
           THEN InvokeRaises(CodeError(
                    "Generated code missing Diagram context", 0, <<>>))
        ELSE IF class = "langchain_chains" THEN ValidateAndReturn(source)
        ELSE IF ~IsNone(validate_no_imports(fix_invalid_service_names(source)))
           THEN InvokeRaises(
                    Val(validate_no_imports(fix_invalid_service_names(source))))
        ELSE ValidateAndReturn(fix_invalid_service_names(source))

\* the pieces a name is made of (\w): letters, digits and the underscore
NamePieces == AlnumPieces \cup {"_"}

\* the place where the run of name pieces that holds place i ends
RECURSIVE NameEnd(_, _)
NameEnd(line, i) ==
    IF i < Len(line) /\ line[i + 1] \in NamePieces
       THEN NameEnd(line, i + 1) ELSE i

\* the first place from p on that holds no whitespace (\s*)
RECURSIVE SkipSpaces(_, _)
SkipSpaces(line, p) ==
    IF p <= Len(line) /\ line[p] \in Whitespace
       THEN SkipSpaces(line, p + 1) ELSE p

\* piece at place p, when the line is that long
At(line, p, piece) == p <= Len(line) /\ line[p] = piece

\* the places where (\w+)\s*=\s*Cluster matches
VarMatches(line) ==
    {s \in 1..Len(line) :
        /\ line[s] \in NamePieces
        /\ At(line, SkipSpaces(line, NameEnd(line, s) + 1), "=")
        /\ At(line, SkipSpaces(line,
                        SkipSpaces(line, NameEnd(line, s) + 1) + 1), "Cluster")}

\* group(1) of re.search(r'(\w+)\s*=\s*Cluster', line): the leftmost match
VarName(line) ==
    LET s == CHOOSE i \in VarMatches(line) : \A j \in VarMatches(line) : i <= j
    IN  SubSeq(line, s, NameEnd(line, s))

\* the place of the first quote from p on, 0 when there is none
RECURSIVE NextQuote(_, _)
NextQuote(line, p) ==
    IF p > Len(line) THEN 0
    ELSE IF line[p] \in {"'", "\""} THEN p
    ELSE NextQuote(line, p + 1)

\* re.search(r'with\s+Cluster\(["\']([^"\']+)["\']\)', line) finds a match
WithClusterMatches(line) ==
    \E s \in 1..Len(line) :
        LET c == SkipSpaces(line, s + 1)
            q == NextQuote(line, c + 3)
        IN  /\ line[s] = "with"
            /\ c > s + 1
            /\ At(line, c, "Cluster")
            /\ At(line, c + 1, "(")
            /\ c + 2 <= Len(line) /\ line[c + 2] \in {"'", "\""}
            /\ q > c + 3
            /\ At(line, q + 1, ")")

\* the variables that name a Cluster: langchain_chains.py looks for them
\* only on lines that open a Cluster with "with"
ClusterVars(class, source) ==
    LET lines == Split(source, "\n")
    IN  {VarName(lines[i]) :
            i \in {k \in 1..Len(lines) :
                      /\ VarMatches(lines[k]) # {}
                      /\ class = "langchain_chains" => WithClusterMatches(lines[k])}}

\* connection_pattern.findall(line) from place p on: the matches of
\* (\w+)\s*>>\s*(\w+), leftmost first, none inside another
RECURSIVE Connections(_, _)
Connections(line, p) ==
    LET starts == {s \in p..Len(line) :
                      /\ line[s] \in NamePieces
                      /\ At(line, SkipSpaces(line, NameEnd(line, s) + 1), ">>")
                      /\ LET d == SkipSpaces(line,
                                      SkipSpaces(line, NameEnd(line, s) + 1) + 1)
                         IN  d <= Len(line) /\ line[d] \in NamePieces}
    IN  IF starts = {} THEN <<>>
        ELSE LET s == CHOOSE i \in starts : \A j \in starts : i <= j
                 d == SkipSpaces(line, SkipSpaces(line, NameEnd(line, s) + 1) + 1)
             IN  <<[source |-> SubSeq(line, s, NameEnd(line, s)),
                    dest |-> SubSeq(line, d, NameEnd(line, d))]>>
                     \o Connections(line, NameEnd(line, d) + 1)

\* the warnings at the end of _validate_generated_code: one for every
\* connection between two Cluster variables
ClusterWarnings(class, source) ==
    LET lines == Split(source, "\n")
    IN  Concat([i \in 1..Len(lines) |->
            SelectSeq(Connections(lines[i], 1),
                      LAMBDA c : /\ c.source \in ClusterVars(class, source)
                                 /\ c.dest \in ClusterVars(class, source))])

\* what an invoke logs as warnings: those of _validate_generated_code when
\* it raises nothing, and invoke got that far
InvokeWarnings(class, response) ==
    IF ~invoke(class, response).ok THEN <<>>
    ELSE ClusterWarnings(class, invoke(class, response).code)

\* the lines a code has after its first one, at most
MaxLines == 2

\* the length of the lines made of quotes and backslashes, at most
MaxQuoteLen == 3

QuotePieces == {"'", "\\"}

QuoteLines == UNION {[1..n -> QuotePieces] : n \in 1..MaxQuoteLen}

\* lines with double quotes, comments, parentheses, import keywords
OtherLines ==
    {<<"\"">>, <<"\\", "\"">>, <<"\\", "\\", "\"">>, <<"\"", "'", "\"">>,
     <<"#", "'">>, <<" ", "#", "(">>, <<"x", " ", "#", "'">>,
     <<"(">>, <<")">>, <<")", "(">>, <<"Lambda", "(", ")">>,
     <<"x", "=", "Lambda", "(", "'", "x", "'", ")">>,
     <<"import", " ", "x">>, <<" ", "from", " ", "x">>, <<"import", "x">>,
     <<" ", "'", " ">>, <<"x">>}

CodeLines == QuoteLines \cup OtherLines

DiagramLine == <<"with", " ", "Diagram", "(", ")", ":">>

\* the lines that codes of several lines are made of
CoreLines ==
    {<<"'">>, <<"\\", "'">>, <<"#", "'">>, <<" ", "'", " ">>,
     <<"(">>, <<")">>, <<"import", " ", "x">>, <<"x">>}

LineSeqs == UNION {[1..n -> CoreLines] : n \in 0..MaxLines}

\* the codes with a Diagram context: the Diagram line and lines of
\* CoreLines, or one line of CodeLines; and one-line codes without it
Codes ==
    {JoinTexts(<<DiagramLine>> \o ls, <<"\n">>) : ls \in LineSeqs}
        \cup {JoinTexts(<<DiagramLine, l>>, <<"\n">>) : l \in CodeLines}
        \cup CodeLines

\* a code inside markdown fences
Fenced(source) == <<PythonFence, "\n">> \o source \o <<"\n", Fence, "\n">>

\* lines that call a name
CallLines ==
    {<<"x", "=", "DynamoDB", "(", ")">>, <<"CloudWatch", "(", ")">>,
     <<"EventBridge", "(", ")">>, <<"X", "-", "Ray", "(", ")">>,
     <<"Secrets", "(", ")">>, <<"Secrets", " ", "Manager", "(", ")">>,
     <<"GuardDuty", "(", ")">>, <<"My", "DynamoDB", "(", ")">>,
     <<"My", "_", "Service", "(", ")">>, <<"My", "-", "Service", "(", ")">>,
     <<"aws", ".", "Lambda", "(", ")">>, <<"x", "Lambda", "(", ")">>,
     <<"_", "Lambda", "(", ")">>, <<"Lambda", " ", "(", ")">>,
     <<"Cluster", "(", ")">>, <<"Rack", "(", ")">>}

\* a line that binds a Cluster to a variable, bare or under "with"
ClusterDef(variable, tail) ==
    <<variable, "=", "Cluster", "(", ")">> \o tail

WithCluster == <<" ", "with", " ", "Cluster", "(", "'", "x", "'", ")">>

\* codes of four lines: two variables and a line that connects names
ClusterCodes ==
    {JoinTexts(<<DiagramLine, first, second, third>>, <<"\n">>) :
        first \in {ClusterDef("a", <<>>), ClusterDef("a", WithCluster)},
        second \in {<<"b", " ", "=", " ", "Cluster", "(", ")">>,
                    ClusterDef("b", WithCluster),
                    <<"b", "=", "Rack", "(", ")">>,
                    <<"b", "=", "Cluster", "(", "'", ")">>,
                    <<"b", "=", "Cluster", "(">>,
                    <<"import", " ", "b">>},
        third \in {<<"a", " ", ">>", " ", "b">>, <<"a", ">>", "b">>,
                   <<"b", " ", ">>", " ", "a">>,
                   <<"x", " ", ">>", " ", "a", " ", ">>", " ", "b">>,
                   <<"a", "-", "b">>}}

\* what the model call answers: a code, bare or inside markdown fences
Responses ==
    Codes \cup {Fenced(JoinTexts(<<DiagramLine, l>>, <<"\n">>)) : l \in OtherLines}
          \cup {JoinTexts(<<DiagramLine, l>>, <<"\n">>) : l \in CallLines}
          \cup ClusterCodes

\* the variables no step of the coder touches
CoderFrame == UNCHANGED <<vars, prev_run, skvars, bpvars, vdvars, stvars>>

\* invoke up to the answer of the model call
CoderLlmResponds ==
    /\ cd_pc = "idle"
    /\ \E class \in CoderClasses, response \in Responses :
          /\ cd_class' = class
          /\ cd_response' = Some(response)
    /\ cd_pc' = "responded"
    /\ UNCHANGED <<cd_result, cd_log, cd_code, cd_rendered>>
    /\ CoderFrame

\* invoke when the model call raises
CoderLlmRaises ==
    /\ cd_pc = "idle"
    /\ \E class \in CoderClasses : cd_class' = class
    /\ cd_result' = Some(InvokeRaises(CodeError("llm", 0, <<>>)))
    /\ cd_pc' = "returned"
    /\ UNCHANGED <<cd_response, cd_log, cd_code, cd_rendered>>
    /\ CoderFrame

\* the rest of invoke: cleaning, checks, return or raise
CoderChainInvoke ==
    /\ cd_pc = "responded"
    /\ cd_result' = Some(invoke(cd_class, Val(cd_response)))
    /\ cd_log' = cd_log \o InvokeWarnings(cd_class, Val(cd_response))
    /\ cd_pc' = "returned"
    /\ UNCHANGED <<cd_class, cd_response, cd_code, cd_rendered>>
    /\ CoderFrame

\* coder_node when chain.invoke returned: state["code"] = code
CoderNodeStoresCode ==
    /\ cd_pc = "returned"
    /\ cd_class = PipelineCoderClass
    /\ Val(cd_result).ok
    /\ cd_code' = Some(Val(cd_result).code)
    /\ cd_pc' = "validator"
    /\ UNCHANGED <<cd_class, cd_response, cd_result, cd_log, cd_rendered>>
    /\ CoderFrame

\* coder_node when chain.invoke raised: the loop makes a new chain and
\* invokes it (CoderNode of the pipeline model counts the retries)
CoderNodeRetries ==
    /\ cd_pc = "returned"
    /\ cd_class = PipelineCoderClass
    /\ ~Val(cd_result).ok
    /\ cd_pc' = "idle"
    /\ cd_class' = ""
    /\ cd_response' = NoneVal
    /\ cd_result' = NoneVal
    /\ UNCHANGED <<cd_log, cd_code, cd_rendered>>
    /\ CoderFrame

\* validator_node: whatever the report says, the graph goes on
CodeThroughValidator ==
    /\ cd_pc = "validator"
    /\ \E is_valid \in BOOLEAN : cd_pc' = AfterValidator(is_valid)
    /\ UNCHANGED <<cd_class, cd_response, cd_result, cd_log, cd_code, cd_rendered>>
    /\ CoderFrame

\* generator_node: generator.generate(state["code"], ...)
CodeToGenerator ==
    /\ cd_pc = "generator"
    /\ cd_rendered' = cd_code
    /\ cd_pc' = "rendered"
    /\ UNCHANGED <<cd_class, cd_response, cd_result, cd_log, cd_code>>
    /\ CoderFrame

CoderNext ==
    \/ CoderLlmResponds
    \/ CoderLlmRaises
    \/ CoderChainInvoke
    \/ CoderNodeStoresCode
    \/ CoderNodeRetries
    \/ CodeThroughValidator
    \/ CodeToGenerator

CoderSpecInit == PipelineInit /\ max_retries = MaxRetriesBound

CoderSpec == CoderSpecInit /\ [][CoderNext]_allvars

\* the text invoke hands to _validate_generated_code
ValidatedCode ==
    IF cd_class = "langchain_chains" THEN CleanCode(Val(cd_response))
    ELSE fix_invalid_service_names(CleanCode(Val(cd_response)))

\* invoke is over, and it had a response of the model call to work on
CoderReturned == cd_pc = "returned" /\ ~IsNone(cd_response)

\* the backslashes right before place i of a line
RECURSIVE BackslashesBefore(_, _)
BackslashesBefore(line, i) ==
    IF i > 1 /\ line[i - 1] = "\\"
       THEN 1 + BackslashesBefore(line, i - 1) ELSE 0

\* the unescaped quotes of a line: those after an even number of backslashes
Unescaped(line, quote) ==
    Cardinality({i \in 1..Len(line) :
                    line[i] = quote /\ BackslashesBefore(line, i) % 2 = 0})

\* the non-comment lines with an odd number of unescaped single quotes or
\* of unescaped double quotes
OddQuoteLines(text) ==
    LET lines == Split(text, "\n")
    IN  {i \in 1..Len(lines) :
            /\ ~StartsWith(Strip(lines[i]), "#")
            /\ \/ Unescaped(lines[i], "'") % 2 # 0
               \/ Unescaped(lines[i], "\"") % 2 # 0}

\* C28: a code in which some non-comment line has an odd number of
\* unescaped single quotes or of unescaped double quotes is rejected by
\* _validate_generated_code, and the error carries the number of the first
\* such line and the text of that line.
C28_OddQuotesRejected ==
    (CoderReturned /\ OddQuoteLines(ValidatedCode) # {}) =>
        LET lines == Split(ValidatedCode, "\n")
            first == CHOOSE i \in OddQuoteLines(ValidatedCode) :
                        \A j \in OddQuoteLines(ValidatedCode) : i <= j
        IN  /\ validate_generated_code(ValidatedCode) =
                  Some(CodeError("Unterminated string on line", first,
                                 Strip(lines[first])))
            /\ ~Val(cd_result).ok

UnmatchedParentheses ==
    CodeError("Unmatched parentheses in generated code", 0, <<>>)

\* C29: a code whose count of "(" differs from its count of ")" is rejected
\* by _validate_generated_code, and so by invoke; the counts are those of
\* the whole text: the error for parentheses is raised exactly when the
\* two counts of the whole text differ and no line fails the test for
\* quotes, however the parentheses lie on the lines.
C29_UnequalParensRejected ==
    CoderReturned =>
        LET unequal == Count(ValidatedCode, "(") # Count(ValidatedCode, ")")
            lines == Split(ValidatedCode, "\n")
            quotes == \E i \in 1..Len(lines) :
                         ~StartsWith(Strip(lines[i]), "#") /\ OddQuotes(lines[i])
        IN  /\ unequal =>
                  /\ ~IsNone(validate_generated_code(ValidatedCode))
                  /\ ~Val(cd_result).ok
            /\ validate_generated_code(ValidatedCode) = Some(UnmatchedParentheses)
                  <=> (unequal /\ ~quotes)

\* invoke raised for the parentheses of a code of three lines
C29_Witness ==
    /\ CoderReturned
    /\ Count(ValidatedCode, "(") # Count(ValidatedCode, ")")
    /\ Len(Split(ValidatedCode, "\n")) = 3
    /\ cd_result = Some(InvokeRaises(UnmatchedParentheses))

\* the lines of a text that start, after their leading whitespace, with an
\* import-style keyword
ImportLines(text) ==
    LET lines == Split(text, "\n")
    IN  {i \in 1..Len(lines) :
            \/ StartsWithText(LStrip(lines[i]), <<"import", " ">>)
            \/ StartsWithText(LStrip(lines[i]), <<"from", " ">>)}

\* C30: a code with a line that starts with an import-style keyword is
\* rejected by invoke, and generator_node never calls
\* DiagramGenerator.generate with such a code.
C30_ImportCodeNeverRendered ==
    /\ (CoderReturned /\ ImportLines(CleanCode(Val(cd_response))) # {}) =>
           ~Val(cd_result).ok
    /\ ~IsNone(cd_rendered) => ImportLines(Val(cd_rendered)) = {}

\* where the name that ends at place i starts, underscores included
RECURSIVE NameStart(_, _)
NameStart(text, i) ==
    IF i > 1 /\ text[i - 1] \in NamePieces THEN NameStart(text, i - 1) ELSE i

\* the call-like tokens of a text whose name starts with a capital letter:
\* the names right before a "("
CapitalCallNames(text) ==
    {SubSeq(text, NameStart(text, i), i) :
        i \in {k \in 1..(Len(text) - 1) :
                  /\ text[k] \in NamePieces
                  /\ text[k + 1] = "("
                  /\ text[NameStart(text, k)] \in ClassNamePieces}}

\* what _fix_invalid_service_names made of the cleaned response
RepairedCode == fix_invalid_service_names(CleanCode(Val(cd_response)))

\* C31: in the output of _fix_invalid_service_names every call-like token
\* whose name starts with a capital letter is a name of the safe list
\* (Diagram, Cluster, Edge, Users, Internet, Rack), whatever the input,
\* names with underscores included.
C31_RepairedCallsAreSafe ==
    (CoderReturned /\ cd_class = "nlp.chains") =>
        \A name \in CapitalCallNames(RepairedCode) :
            Len(name) = 1 /\ name[1] \in SafeList

\* C37: a call of an alias that the replacements table maps to a symbol of
\* diagrams comes out of _fix_invalid_service_names as a call of that
\* symbol, not of Rack: where the input has the alias before "(", the
\* output has the symbol of the table.
C37_AliasBecomesCanonical ==
    (CoderReturned /\ cd_class = "nlp.chains") =>
        \A k \in 1..Len(Replacements) :
            (/\ Replacements[k][2] # "Rack"
             /\ \E i \in 1..Len(CleanCode(Val(cd_response))) :
                   StartsWithText(
                       SubSeq(CleanCode(Val(cd_response)), i,
                              Len(CleanCode(Val(cd_response)))),
                       Replacements[k][1] \o <<"(">>))
            => \E i \in 1..(Len(RepairedCode) - 1) :
                  RepairedCode[i] = Replacements[k][2] /\ RepairedCode[i + 1] = "("

\* C32: warnings never block invoke, errors always do: a code whose only
\* finding is a connection between two Cluster variables is returned as it
\* is, with the warning logged, and a code with a structural error (a line
\* with an odd number of unescaped quotes, unequal counts of parentheses,
\* an import line) makes invoke raise and return no code.
C32_WarningsNeverBlock ==
    (/\ CoderReturned
     /\ cd_class = "nlp.chains"
     /\ Contains(CleanCode(Val(cd_response)), "Diagram")) =>
        LET structural ==
                \/ OddQuoteLines(RepairedCode) # {}
                \/ Count(RepairedCode, "(") # Count(RepairedCode, ")")
                \/ ImportLines(RepairedCode) # {}
        IN  /\ structural => ~Val(cd_result).ok
            /\ (~structural /\ ClusterWarnings(cd_class, RepairedCode) # <<>>) =>
                  /\ cd_result = Some(InvokeReturns(RepairedCode))
                  /\ cd_log = ClusterWarnings(cd_class, RepairedCode)

\* DiagramValidator (validator.py) on the text of a code

\* DiagramValidator._load_aws_components
aws_components ==
    {"APIGateway", "Lambda", "Dynamodb", "S3", "EC2", "RDS", "ElastiCache",
     "SQS", "SNS", "CloudFront", "Route53", "IAM", "CloudWatch", "VPC",
     "SecurityGroup", "ELB", "ALB", "NLB", "AutoScaling", "ECS", "EKS",
     "CodeDeploy", "CodePipeline", "CodeBuild", "KMS"}

\* the pieces that are words (\w+) in the codes handed to the validator;
\* "from diagrams.aws." and " import" are pieces of their own
ValidatorWords ==
    aws_components \cup {"Foo", "x", "a", "b", "f", "os", "compute", "unknown",
                         "exec", "eval", "evaluate", "__import__", "open",
                         "reopen"}

\* the names of one import statement, from the name at place p on:
\* \w+(?:\s*,\s*\w+)*
RECURSIVE NamesFrom(_, _)
NamesFrom(text, p) ==
    LET comma == SkipSpaces(text, p + 1)
        next == SkipSpaces(text, comma + 1)
    IN  <<text[p]>> \o
        (IF At(text, comma, ",") /\ next <= Len(text)
               /\ text[next] \in ValidatorWords
            THEN NamesFrom(text, next) ELSE <<>>)

\* the places where from diagrams\.aws\.(\w+) import\s+(\w+...) matches
ImportMatches(text) ==
    {s \in 1..Len(text) :
        /\ text[s] = "from diagrams.aws."
        /\ s + 3 <= Len(text)
        /\ text[s + 1] \in ValidatorWords
        /\ text[s + 2] = " import"
        /\ text[s + 3] \in Whitespace
        /\ SkipSpaces(text, s + 3) <= Len(text)
        /\ text[SkipSpaces(text, s + 3)] \in ValidatorWords}

\* the names of all import statements of diagrams.aws, in their order
ImportedNames(text) ==
    LET matches == ImportMatches(text)
        match(k) == CHOOSE s \in matches :
                        Cardinality({r \in matches : r < s}) = k - 1
    IN  Concat([k \in 1..Cardinality(matches) |->
                   NamesFrom(text, SkipSpaces(text, match(k) + 3))])

\* re.findall(r"(\w+)\s*\(['\"]", code): the names before a parenthesis
\* and a quote
Instantiations(text) ==
    SelectSeq([i \in 1..Len(text) |->
                  IF /\ text[i] \in ValidatorWords
                     /\ At(text, SkipSpaces(text, i + 1), "(")
                     /\ SkipSpaces(text, i + 1) + 1 <= Len(text)
                     /\ text[SkipSpaces(text, i + 1) + 1] \in {"'", "\""}
                     THEN text[i] ELSE ""],
              LAMBDA name : name # "")

\* the pieces that hold the name of a dangerous function
PiecesWith(func) ==
    CASE func = "exec" -> {"exec"}
      [] func = "eval" -> {"eval", "evaluate"}
      [] func = "__import__" -> {"__import__"}

\* dangerous_functions of _validate_security
dangerous_functions == <<"exec", "eval", "__import__">>

\* re.search(r"\bopen\s*\(", code) finds a match
FileOperations(text) ==
    \E i \in 1..Len(text) :
        /\ text[i] = "open"
        /\ (i = 1 \/ text[i - 1] \notin ValidatorWords)
        /\ At(text, SkipSpaces(text, i + 1), "(")

\* the number of warnings _validate_security gives
DangerousCount(text) ==
    Len(SelectSeq(dangerous_functions,
                  LAMBDA func : \E i \in 1..Len(text) : text[i] \in PiecesWith(func)))
        + (IF FileOperations(text) THEN 1 ELSE 0)

\* what the checks of validate find in a code; parses tells whether
\* ast.parse accepts it
Findings(c) ==
    [syntax_ok |-> c.parses,
     unknown |-> Len(SelectSeq(ImportedNames(c.text),
                               LAMBDA name : name \notin aws_components)),
     components |-> Len(SelectSeq(Instantiations(c.text),
                        LAMBDA name : \E k \in 1..Len(ImportedNames(c.text)) :
                                         ImportedNames(c.text)[k] = name)),
     relationships |-> Count(c.text, ">>"),
     dangerous |-> DangerousCount(c.text)]

\* a validate that puts the security findings with the errors
validate_security_as_errors(c) ==
    LET report == Validate(Findings(c))
    IN  [report EXCEPT !.errors = report.errors \o report.warnings,
                       !.warnings = <<>>,
                       !.is_valid = Len(report.errors \o report.warnings) = 0]

\* DiagramValidator.validate
validate(c) == Validate(Findings(c))

\* the lines a code for the validator has, at most
MaxValidatorLines == 2

ValidatorLines ==
    {<<"from diagrams.aws.", "compute", " import", " ", "Lambda">>,
     <<"from diagrams.aws.", "unknown", " import", " ", "Foo">>,
     <<"from diagrams.aws.", "compute", " import", " ", "Lambda", ",", " ", "Foo">>,
     <<"x", "=", "Lambda", "(", "'", "a", "'", ")">>,
     <<"x", "=", "Foo", " ", "(", "\"", "a", "\"", ")">>,
     <<"a", " ", ">>", " ", "b">>,
     <<"exec", "(", "'", "a", "'", ")">>,
     <<"x", "=", "evaluate", "(", ")">>,
     <<"__import__", "(", "'", "os", "'", ")">>,
     <<"f", ".", "open", " ", "(", "'", "f", "'", ")">>,
     <<"reopen", "(", ")">>}

\* a code with one relationship more than max_relationships, and a code
\* with one component more than max_components
LargeCodes ==
    {[i \in 1..(max_relationships + 1) |-> ">>"],
     <<"from diagrams.aws.", "compute", " import", " ", "Lambda", "\n">>
         \o [i \in 1..(3 * (max_components + 1)) |->
                <<"Lambda", "(", "'">>[((i - 1) % 3) + 1]]}

\* the codes validate is called with, each one parsing or not
ValidatorCodes ==
    {[text |-> t, parses |-> ok] :
        t \in {JoinTexts(ls, <<"\n">>) :
                  ls \in UNION {[1..n -> ValidatorLines] :
                                   n \in 0..MaxValidatorLines}}
              \cup LargeCodes,
        ok \in BOOLEAN}

\* the variables no step of the validator touches
ValidatorFrame == UNCHANGED <<vars, prev_run, skvars, bpvars, cdvars, stvars>>

\* a caller hands a code to validate
ValidateCalled ==
    /\ vd_pc = "idle"
    /\ \E c \in ValidatorCodes : vd_code' = Some(c)
    /\ vd_pc' = "called"
    /\ UNCHANGED vd_report
    /\ ValidatorFrame

\* validate returns its report
ValidateReturns ==
    /\ vd_pc = "called"
    /\ vd_report' = Some(validate(Val(vd_code)))
    /\ vd_pc' = "returned"
    /\ UNCHANGED vd_code
    /\ ValidatorFrame

ValidatorNext == ValidateCalled \/ ValidateReturns

ValidatorSpecInit == PipelineInit /\ max_retries = MaxRetriesBound

ValidatorSpec == ValidatorSpecInit /\ [][ValidatorNext]_allvars

\* validate has returned a report for the code it was called with
ValidateReturned == vd_pc = "returned"

\* the only thing wrong with the code is an imported name outside
\* aws_components
OnlyUnknownImport(c) ==
    /\ c.parses
    /\ \E k \in 1..Len(ImportedNames(c.text)) :
           ImportedNames(c.text)[k] \notin aws_components
    /\ DangerousCount(c.text) = 0
    /\ Findings(c).components <= max_components
    /\ Findings(c).relationships <= max_relationships

\* C33: a code whose only finding is an unknown imported component gets a
\* report with is_valid true or with a warning, and a report is invalid only
\* when one of its errors has severity "error"
C33_UnknownComponentIsWarning ==
    ValidateReturned =>
        LET report == Val(vd_report)
        IN  /\ OnlyUnknownImport(Val(vd_code)) =>
                   report.is_valid \/ Len(report.warnings) > 0
            /\ ~report.is_valid =>
                   \E k \in 1..Len(report.errors) :
                       report.errors[k].severity = "error"

\* the constructs _validate_security looks for
DangerousPieces == {"exec", "eval", "evaluate", "__import__"}

\* a dangerous construct is in the text
DangerousPresent(text) ==
    \/ \E i \in 1..Len(text) : text[i] \in DangerousPieces
    \/ FileOperations(text)

\* the code with every dangerous name replaced by a harmless one
Harmless(c) ==
    [c EXCEPT !.text = [i \in 1..Len(c.text) |->
                           IF c.text[i] \in DangerousPieces \cup {"open"}
                              THEN "x" ELSE c.text[i]]]

\* C34: dangerous constructs are reported as warnings of field "security"
\* only: with one in the code the report has a warning, no error is a
\* security finding, and is_valid and the errors are those of the same code
\* without the dangerous names
C34_SecurityOnlyWarns ==
    ValidateReturned =>
        LET report == Val(vd_report)
            c == Val(vd_code)
        IN  /\ DangerousPresent(c.text) => Len(report.warnings) >= 1
            /\ \A k \in 1..Len(report.warnings) :
                   report.warnings[k] = Finding("security", "warning")
            /\ \A k \in 1..Len(report.errors) :
                   report.errors[k].field # "security"
            /\ validate(Harmless(c)).warnings = <<>>
            /\ report.is_valid = validate(Harmless(c)).is_valid
            /\ report.errors = validate(Harmless(c)).errors

C34_Witness ==
    /\ ValidateReturned
    /\ DangerousPresent(Val(vd_code).text)
    /\ Len(Val(vd_report).warnings) >= 2
    /\ ~Val(vd_report).is_valid

----------------------------------------------------------------------------
\* DiagramStorage (storage.py)

\* the diagrams saved on one path, at most
MaxDiagrams == 2

\* uuid.uuid4(): an id no diagram had before
DiagramIds == 1..MaxDiagrams

\* os.linesep of the platform the storage runs on
linesep == "\n"

\* Path.write_text in text mode: every "\n" is written as os.linesep
WriteText(t) == [i \in 1..Len(t) |-> IF t[i] = "\n" THEN linesep ELSE t[i]]

\* Path.read_text in text mode (universal newlines): "\r\n" and "\r" are
\* read as "\n"
RECURSIVE ReadText(_)
ReadText(t) ==
    IF Len(t) = 0 THEN <<>>
    ELSE IF t[1] = "\r" /\ Len(t) >= 2 /\ t[2] = "\n"
       THEN <<"\n">> \o ReadText(SubSeq(t, 3, Len(t)))
    ELSE IF t[1] = "\r" THEN <<"\n">> \o ReadText(Tail(t))
    ELSE <<t[1]>> \o ReadText(Tail(t))

\* DiagramStorage._calculate_checksum: SHA256 of the text, a value that
\* differs for different texts
calculate_checksum(data) == <<"sha256">> \o data

\* d[key] = value and del d[key] on a mapping kept as a function
Put(d, key, value) ==
    [k \in DOMAIN d \cup {key} |-> IF k = key THEN value ELSE d[k]]

Del(d, key) == [k \in DOMAIN d \ {key} |-> d[k]]

\* diagram_id in self._index
InIndex(index, diagram_id) ==
    \E k \in 1..Len(index) : index[k].diagram_id = diagram_id

\* self._index[diagram_id]
IndexEntry(index, diagram_id) ==
    index[CHOOSE k \in 1..Len(index) : index[k].diagram_id = diagram_id]

\* self._index[diagram_id] = {...}: a new key goes last, a key the dict has
\* keeps its place
IndexPut(index, entry) ==
    IF InIndex(index, entry.diagram_id)
       THEN [k \in 1..Len(index) |->
                IF index[k].diagram_id = entry.diagram_id THEN entry ELSE index[k]]
       ELSE Append(index, entry)

\* del self._index[diagram_id]
IndexDel(index, diagram_id) ==
    SelectSeq(index, LAMBDA entry : entry.diagram_id # diagram_id)

\* DiagramStorage._load_index
load_index(disk) == IF IsNone(disk.index) THEN <<>> ELSE Val(disk.index)

\* DiagramStorage._save_index
save_index(disk, index) == [disk EXCEPT !.index = Some(index)]

\* settings.output_formats
output_formats == <<"png", "pdf", "svg">>

\* DiagramStorage.get_diagram
get_diagram(index, disk, diagram_id) ==
    IF ~InIndex(index, diagram_id) THEN NoneVal
    ELSE IF diagram_id \notin DOMAIN disk.metadata THEN NoneVal
    ELSE IF diagram_id \notin DOMAIN disk.code THEN NoneVal
    ELSE Some([diagram_id |-> diagram_id,
               metadata |-> disk.metadata[diagram_id],
               code |-> ReadText(disk.code[diagram_id]),
               file_paths |-> {output_formats[k] : k \in
                                 {j \in 1..Len(output_formats) :
                                     <<diagram_id, output_formats[j]>> \in disk.outputs}},
               checksum |-> IndexEntry(index, diagram_id).checksum])

\* list.sort(key=created_at, reverse=True): newest first, diagrams of the
\* same time in the order they had
RECURSIVE SortNewestFirst(_)
SortNewestFirst(diagrams) ==
    IF Len(diagrams) = 0 THEN <<>>
    ELSE LET last == diagrams[Len(diagrams)]
             front == SortNewestFirst(SubSeq(diagrams, 1, Len(diagrams) - 1))
         IN  SelectSeq(front, LAMBDA d : d.metadata.created_at >= last.metadata.created_at)
             \o <<last>>
             \o SelectSeq(front, LAMBDA d : d.metadata.created_at < last.metadata.created_at)

\* DiagramStorage.list_diagrams, called without a tag
list_diagrams(index, disk) ==
    SortNewestFirst(
        [k \in 1..Len(SelectSeq(index,
                  LAMBDA entry : ~IsNone(get_diagram(index, disk, entry.diagram_id)))) |->
            Val(get_diagram(index, disk,
                    SelectSeq(index,
                        LAMBDA entry : ~IsNone(get_diagram(index, disk, entry.diagram_id)))[k]
                        .diagram_id))])

\* the calls of save_diagram: a code, its metadata and the formats whose
\* output file exists
SaveCalls ==
    {[code |-> <<"a">>, metadata |-> [name |-> "First", created_at |-> 1],
      formats |-> {}],
     [code |-> <<"a", "\r", "\n", "b">>, metadata |-> [name |-> "Second", created_at |-> 2],
      formats |-> {"png"}]}

\* the variables no step of the storage touches
StorageFrame == UNCHANGED <<vars, prev_run, skvars, bpvars, cdvars, vdvars>>

\* DiagramStorage(storage_path): an object is opened on the path and loads
\* the index
StorageOpen(o) ==
    /\ st_index' = [st_index EXCEPT ![o] = load_index(st_disk)]
    /\ st_scope' = [id \in DOMAIN st_scope |-> st_scope[id] \cup {o}]
    /\ st_last' = [op |-> "open"]
    /\ UNCHANGED <<st_disk, st_saved, st_deleted>>
    /\ StorageFrame

\* save_diagram(code, metadata, output_files), formats are the keys of
\* output_files whose file exists
StorageSave(o, source, metadata, formats) ==
    /\ Cardinality(DOMAIN st_saved) < MaxDiagrams
    /\ LET diagram_id == Cardinality(DOMAIN st_saved) + 1
           checksum == calculate_checksum(source)
           index == IndexPut(st_index[o],
                        [diagram_id |-> diagram_id, name |-> metadata.name,
                         created_at |-> metadata.created_at,
                         checksum |-> checksum])
           stored == [diagram_id |-> diagram_id, metadata |-> metadata,
                      code |-> source, file_paths |-> formats,
                      checksum |-> checksum]
       IN  /\ st_disk' = save_index(
                  [st_disk EXCEPT
                      !.code = Put(@, diagram_id, WriteText(source)),
                      !.outputs = @ \cup {<<diagram_id, f>> : f \in formats},
                      !.metadata = Put(@, diagram_id, metadata)],
                  index)
           /\ st_index' = [st_index EXCEPT ![o] = index]
           /\ st_saved' = Put(st_saved, diagram_id, stored)
           /\ st_scope' = Put(st_scope, diagram_id, {o})
           /\ st_last' = [op |-> "save"]
    /\ UNCHANGED st_deleted
    /\ StorageFrame

\* get_diagram(diagram_id)
StorageGet(o, diagram_id) ==
    /\ st_last' = [op |-> "get", object |-> o, diagram_id |-> diagram_id,
                   result |-> get_diagram(st_index[o], st_disk, diagram_id)]
    /\ UNCHANGED <<st_disk, st_index, st_saved, st_deleted, st_scope>>
    /\ StorageFrame

\* list_diagrams()
StorageList(o) ==
    /\ st_last' = [op |-> "list", object |-> o,
                   result |-> list_diagrams(st_index[o], st_disk)]
    /\ UNCHANGED <<st_disk, st_index, st_saved, st_deleted, st_scope>>
    /\ StorageFrame

\* delete_diagram(diagram_id)
StorageDelete(o, diagram_id) ==
    IF ~InIndex(st_index[o], diagram_id)
       THEN /\ st_last' = [op |-> "delete", object |-> o,
                           diagram_id |-> diagram_id, result |-> FALSE,
                           stored |-> diagram_id \in DOMAIN st_saved \ st_deleted]
            /\ UNCHANGED <<st_disk, st_index, st_saved, st_deleted, st_scope>>
            /\ StorageFrame
       ELSE /\ st_disk' = save_index(
                   [st_disk EXCEPT
                       !.code = Del(@, diagram_id),
                       !.outputs = {f \in @ : f[1] # diagram_id},
                       !.metadata = Del(@, diagram_id)],
                   IndexDel(st_index[o], diagram_id))
            /\ st_index' = [st_index EXCEPT ![o] = IndexDel(@, diagram_id)]
            /\ st_deleted' = st_deleted \cup {diagram_id}
            /\ st_last' = [op |-> "delete", object |-> o,
                           diagram_id |-> diagram_id, result |-> TRUE,
                           stored |-> diagram_id \in DOMAIN st_saved \ st_deleted]
            /\ UNCHANGED <<st_saved, st_scope>>
            /\ StorageFrame

StorageNext ==
    \E o \in StorageObjects :
        \/ StorageOpen(o)
        \/ \E call \in SaveCalls :
               StorageSave(o, call.code, call.metadata, call.formats)
        \/ \E diagram_id \in DiagramIds : StorageGet(o, diagram_id)
        \/ StorageList(o)
        \/ \E diagram_id \in DiagramIds : StorageDelete(o, diagram_id)

StorageSpecInit == PipelineInit /\ max_retries = MaxRetriesBound

StorageSpec == StorageSpecInit /\ [][StorageNext]_allvars

\* the diagrams that were saved and not deleted
StoredIds == DOMAIN st_saved \ st_deleted

\* what a DiagramStorage object opened now on the path returns for an id
GetThroughNewObject(disk, diagram_id) ==
    get_diagram(load_index(disk), disk, diagram_id)

\* C35: get_diagram of a diagram that was saved and not deleted, through
\* the object that saved it or an object opened on the path later, returns
\* a diagram with the id, code, metadata name and checksum save_diagram
\* returned
C35_SaveGetRoundTrip ==
    (/\ st_last.op = "get"
     /\ st_last.diagram_id \in StoredIds
     /\ st_last.object \in st_scope[st_last.diagram_id])
    => /\ ~IsNone(st_last.result)
       /\ LET saved == st_saved[st_last.diagram_id]
              got == Val(st_last.result)
          IN  /\ got.diagram_id = saved.diagram_id
              /\ got.code = saved.code
              /\ got.metadata.name = saved.metadata.name
              /\ got.checksum = saved.checksum

\* a delete_diagram call has just returned
DeleteReturned == st_last.op = "delete"

\* C36: delete_diagram returns True exactly when the id is stored; an id
\* deleted once is never returned by get_diagram or list_diagrams of any
\* object; and a delete leaves every other diagram retrievable through an
\* object opened afterwards if it was before
C36_DeleteRemovesOnlyThatDiagram ==
    /\ [](DeleteReturned => (st_last.result <=> st_last.stored))
    /\ [](\A diagram_id \in st_deleted, o \in StorageObjects :
              /\ IsNone(get_diagram(st_index[o], st_disk, diagram_id))
              /\ \A k \in 1..Len(list_diagrams(st_index[o], st_disk)) :
                     list_diagrams(st_index[o], st_disk)[k].diagram_id # diagram_id)
    /\ [][(st_last'.op = "delete" /\ st_last'.result) =>
             \A other \in StoredIds' :
                 ~IsNone(GetThroughNewObject(st_disk, other))
                     => ~IsNone(GetThroughNewObject(st_disk', other))]_allvars

\* the failed attempts of the blueprint, code and render stages in a
\* history
FailedAttempts(history) ==
    Cardinality({i \in 1..Len(history) :
                    history[i][1] \in Mandatory /\ history[i][2] = "fail"})

\* C38: in every state of a run retry_count lies between 0 and
\* max_retries + 1 and equals the number of failed attempts of the
\* blueprint, code and render stages so far, and no step of the run lowers it
C38_RetryCountCountsFailures ==
    /\ [](/\ 0 <= retry_count
          /\ retry_count <= max_retries + 1
          /\ retry_count = FailedAttempts(trace)
          /\ FailedAttempts(trace) <= max_retries + 1)
    /\ [][runs' = runs => retry_count' >= retry_count]_allvars

C38_Witness ==
    /\ pc = "done"
    /\ max_retries = MaxRetriesBound
    /\ retry_count = max_retries + 1
    /\ \E i, j \in 1..Len(trace) :
           /\ trace[i][2] = "fail" /\ trace[j][2] = "fail"
           /\ trace[i][1] = "blueprint" /\ trace[j][1] = "generator"

\* the relationships the lines of an answer state
StatedRelationships(a) == [i \in 1..Len(a.rels) |-> a.rels[i].rel]

\* C39: the Relationships: header switches the section also when it comes
\* directly after the lines of a cluster block: the relationship bullets
\* under it are parsed as they are when a blank line stands before the header
C39_HeaderAfterClusterSwitches ==
    (AnswerParsed /\ Val(bp_answer).cluster_style = "tight") =>
        /\ Val(bp_parsed).ok
        /\ Val(bp_parsed).value.relationships =
              parse_blueprint_text(Strip(AnswerText(
                  [Val(bp_answer) EXCEPT !.cluster_style = "bare"]))).value.relationships
        /\ Val(bp_parsed).value.relationships = StatedRelationships(Val(bp_answer))

\* the entries of the best_practices key of a blueprint, none when the key
\* is missing
BestPractices(bp) ==
    IF IsNone(bp.best_practices) THEN <<>> ELSE Val(bp.best_practices)

\* blueprint b is blueprint a with best-practice entries added and nothing
\* else changed
OnlyAddsBestPractices(a, b) ==
    /\ [b EXCEPT !.best_practices = a.best_practices] = a
    /\ Len(BestPractices(b)) >= Len(BestPractices(a))
    /\ SubSeq(BestPractices(b), 1, Len(BestPractices(a))) = BestPractices(a)

\* C40: no stage changes the description or the diagram name; the code,
\* validate and render stages leave the blueprint as it is; the validate and
\* render stages leave the code as it is; the enrich stage changes the
\* blueprint by adding best-practice entries only
C40_DataFlowsForward ==
    [][runs' = runs =>
          /\ description' = description
          /\ diagram_name' = diagram_name
          /\ pc \in {"coder", "validator", "generator"} => blueprint' = blueprint
          /\ pc \in {"validator", "generator"} => code' = code
          /\ (pc = "enrich_mcp" /\ Truthy(blueprint)) =>
                /\ Truthy(blueprint')
                /\ OnlyAddsBestPractices(Val(blueprint), Val(blueprint'))
          /\ (pc = "enrich_mcp" /\ ~Truthy(blueprint)) => blueprint' = blueprint]_allvars

C40_Witness ==
    /\ pc = "done"
    /\ Truthy(output_files)
    /\ Truthy(code)
    /\ Truthy(blueprint)
    /\ Len(BestPractices(Val(blueprint))) > 0
    /\ \E i \in 1..Len(trace) : trace[i][1] = "enrich_mcp" /\ trace[i][2] = "swallowed"

====
